---------------------------- MODULE Spec2Model ----------------------------
(***************************************************************************)
(* CandleKit: the CandleStick feature model (src/entity.py) and the        *)
(* candlestick pattern predicates (src/patterns.py).                       *)
(*                                                                         *)
(* Numbers.  Python floats are modelled as exact rationals [n, d] kept in  *)
(* lowest terms with d > 0, so that equal values are equal records.  The    *)
(* predicates and SpecFeature compute on exact decimals, without IEEE      *)
(* rounding.  SpecRounded reads the length properties of a bar in binary   *)
(* floats of Precision significand bits, every subtraction rounded to the  *)
(* nearest float, ties to even, as the arithmetic of a Python float is.    *)
(*                                                                         *)
(* Outcomes.  A call of a predicate ends in "True", "False", or in the     *)
(* name of the exception it raises ("IndexError", "AttributeError").       *)
(*                                                                         *)
(* State.  candles is the window the caller holds, oldest bar first;       *)
(* called names the property or predicate whose value the caller holds     *)
(* ("none" when idle), args the float thresholds it was given, flags its   *)
(* bool parameter if it takes one, result what it returned.                *)
(***************************************************************************)
EXTENDS Integers, Sequences, FiniteSets

VARIABLES candles, called, args, flags, result

vars == <<candles, called, args, flags, result>>

-----------------------------------------------------------------------------
(* Bounds of the model *)

\* grid of prices 0..MaxPrice for the single-bar specification
MaxPrice == 2
\* grid of prices 0..PairPrice for the two-bar specification
PairPrice == 3
\* longest window of the window-length specification
MaxWindow == 5
\* the middle bar of a three-bar window sits MaxShift above the grid's floor,
\* its neighbours anywhere from 0 to 2 * MaxShift above it
MaxShift == 2
\* significand bits of the floats of the rounded specification (a Python
\* float keeps 53)
Precision == 2
\* the grid of whole prices of the rounded specification runs RoundedExcess
\* beyond 2^Precision, the last price up to which every whole number is a float
RoundedExcess == 2

-----------------------------------------------------------------------------
(* Exact arithmetic standing for Python's float arithmetic *)

AbsInt(x) == IF x < 0 THEN -x ELSE x

RECURSIVE GCD(_, _)
GCD(a, b) == IF b = 0 THEN a ELSE GCD(b, a % b)

\* the rational n/d in lowest terms, d /= 0
R(n, d) ==
    LET g == GCD(AbsInt(n), AbsInt(d))
        s == IF d < 0 THEN -1 ELSE 1
    IN  [n |-> (s * n) \div g, d |-> (s * d) \div g]

Zero == R(0, 1)
One == R(1, 1)

\* what a float division by zero raises, as a value no number equals
ZeroDivisionError == [n |-> 1, d |-> 0]

IsNum(x) == x.d > 0

Add(a, b) == R(a.n * b.d + b.n * a.d, a.d * b.d)
Sub(a, b) == R(a.n * b.d - b.n * a.d, a.d * b.d)
Mul(a, b) == R(a.n * b.n, a.d * b.d)
Div(a, b) == IF b.n = 0 THEN ZeroDivisionError ELSE R(a.n * b.d, a.d * b.n)

\* a < b for rationals with large terms, without forming their cross products:
\* compare the integer parts, then the reciprocals of the fractional parts
RECURSIVE EuclidLess(_, _)
EuclidLess(a, b) ==
    LET fa == a.n \div a.d
        fb == b.n \div b.d
        ra == a.n % a.d
        rb == b.n % b.d
    IN  IF fa /= fb THEN fa < fb
        ELSE IF rb = 0 THEN FALSE
        ELSE IF ra = 0 THEN TRUE
        ELSE EuclidLess([n |-> b.d, d |-> rb], [n |-> a.d, d |-> ra])

SmallTerms(a) == AbsInt(a.n) < 30000 /\ a.d < 30000

Lt(a, b) ==
    IF SmallTerms(a) /\ SmallTerms(b) THEN a.n * b.d < b.n * a.d
    ELSE EuclidLess(a, b)
Gt(a, b) == Lt(b, a)
Le(a, b) == ~Lt(b, a)
Ge(a, b) == ~Lt(a, b)

\* Python's abs, and the two-argument max and min (the first argument wins a tie)
Abs(a) == [n |-> AbsInt(a.n), d |-> a.d]
Max(a, b) == IF Gt(b, a) THEN b ELSE a
Min(a, b) == IF Lt(b, a) THEN b ELSE a
Max3(a, b, c) == Max(Max(a, b), c)

RECURSIVE Pow2(_)
Pow2(k) == IF k = 0 THEN 1 ELSE 2 * Pow2(k - 1)

\* x * 2^e for an integer e of either sign
Scale(x, e) ==
    IF e >= 0 THEN R(x.n * Pow2(e), x.d) ELSE R(x.n, x.d * Pow2(-e))

\* the exponent e, searched from k, at which x > 0 is m * 2^e with a
\* significand m of exactly Precision bits before its binary point
RECURSIVE ExponentFrom(_, _)
ExponentFrom(x, k) ==
    LET s == Scale(x, -k)
        q == s.n \div s.d
    IN  IF q >= Pow2(Precision) THEN ExponentFrom(x, k + 1)
        ELSE IF q < Pow2(Precision - 1) THEN ExponentFrom(x, k - 1)
        ELSE k

\* the float nearest to the real x: the significand is cut to Precision bits,
\* a tie goes to the even significand (IEEE 754 round-to-nearest-even, without
\* overflow or subnormals)
RoundNearestEven(x) ==
    IF x.n = 0 THEN x
    ELSE LET a == [n |-> AbsInt(x.n), d |-> x.d]
             e == ExponentFrom(a, 0)
             s == Scale(a, -e)
             q == s.n \div s.d
             r == s.n % s.d
             m == IF 2 * r > s.d \/ (2 * r = s.d /\ q % 2 = 1) THEN q + 1 ELSE q
             v == Scale(R(m, 1), e)
         IN  IF x.n < 0 THEN R(-v.n, v.d) ELSE v

\* float + and float -: the exact result, rounded
FAdd(a, b) == RoundNearestEven(Add(a, b))
FSub(a, b) == RoundNearestEven(Sub(a, b))

\* the float literals of the source
Half == R(1, 2)
Two == R(2, 1)

\* the outcome of a call that returned the boolean b
Ret(b) == IF b THEN "True" ELSE "False"

-----------------------------------------------------------------------------
(* src/entity.py: CandleStick *)

\* float(x) of a table cell holding the decimal fraction x.n / x.d
float(x) == R(x.n, x.d)

CandleStick(df, index) ==
    LET row == df[index]
    IN  [open  |-> float(row.Open),
         high  |-> float(row.High),
         low   |-> float(row.Low),
         close |-> float(row.Close)]

top_wick_swapped(c) == Sub(Max(c.open, c.close), c.high)

top_wick(c) == Sub(c.high, Max(c.open, c.close))

bottom_wick_from_close(c) == Sub(c.close, c.low)

bottom_wick(c) == Sub(Min(c.open, c.close), c.low)

body_length(c) == Abs(Sub(c.open, c.close))

body_average(c) == Div(Add(c.open, c.close), Two)

length(c) == Sub(c.high, c.low)

is_bullish(c) == Gt(c.close, c.open)

\* the length properties as the floats they are computed in
top_wick_rounded(c) == FSub(c.high, Max(c.open, c.close))

bottom_wick_rounded(c) == FSub(Min(c.open, c.close), c.low)

body_length_signed(c) == FSub(c.open, c.close)

body_length_rounded(c) == Abs(FSub(c.open, c.close))

length_rounded(c) == FSub(c.high, c.low)

body_ratio_unguarded(c) == Div(body_length(c), length(c))

body_ratio_sentinel_one(c) ==
    IF length(c) = Zero THEN One
    ELSE Div(body_length(c), length(c))

body_ratio(c) ==
    IF length(c) = Zero THEN Zero
    ELSE Div(body_length(c), length(c))

body_low(c) == IF Lt(c.close, c.open) THEN c.close ELSE c.open

body_high(c) == IF Gt(c.close, c.open) THEN c.close ELSE c.open

-----------------------------------------------------------------------------
(* src/patterns.py: shared helpers *)

is_thick_enough(candle, min_ratio) == Ge(body_ratio(candle), min_ratio)

is_thick_bearish(candle, min_ratio) ==
    ~is_bullish(candle) /\ Ge(body_ratio(candle), min_ratio)

is_thick_bullish(candle, min_ratio) ==
    is_bullish(candle) /\ Ge(body_ratio(candle), min_ratio)

is_thin_enough(candle, max_ratio) == Le(body_ratio(candle), max_ratio)

is_thin_bearish(candle, max_ratio) ==
    ~is_bullish(candle) /\ Le(body_ratio(candle), max_ratio)

is_thin_bullish(candle, max_ratio) ==
    is_bullish(candle) /\ Le(body_ratio(candle), max_ratio)

gap_down(prev, curr) == Lt(curr.open, prev.close)

gap_up(prev, curr) == Gt(curr.open, prev.close)

body_engulfs_close(prev, curr) ==
    Lt(curr.open, prev.close) /\ Gt(curr.close, prev.close)

body_engulfs(prev, curr) ==
    Lt(curr.open, prev.close) /\ Gt(curr.close, prev.open)

body_engulfed(prev, curr) ==
    Gt(curr.open, prev.close) /\ Lt(curr.close, prev.open)

-----------------------------------------------------------------------------
(* src/patterns.py: single-candle patterns *)

is_doji_unguarded(candle, max_body_ratio) ==
    Le(body_ratio(candle), max_body_ratio)

is_doji(candle, max_body_ratio) ==
    IF length(candle) = Zero THEN FALSE
    ELSE Le(body_ratio(candle), max_body_ratio)

is_dragonfly(candle, max_body_ratio, top_wick_ratio, bottom_wick_ratio) ==
    IF length(candle) = Zero THEN FALSE
    ELSE /\ is_doji(candle, max_body_ratio)
         /\ Le(top_wick(candle), Mul(length(candle), top_wick_ratio))
         /\ Ge(bottom_wick(candle), Mul(length(candle), bottom_wick_ratio))

is_gravestone(candle, max_body_ratio, top_wick_ratio, bottom_wick_ratio) ==
    IF length(candle) = Zero THEN FALSE
    ELSE /\ is_doji(candle, max_body_ratio)
         /\ Ge(top_wick(candle), Mul(length(candle), top_wick_ratio))
         /\ Le(bottom_wick(candle), Mul(length(candle), bottom_wick_ratio))

is_long_legged(candle, max_body_ratio, min_wick_ratio) ==
    IF length(candle) = Zero THEN FALSE
    ELSE /\ is_doji(candle, max_body_ratio)
         /\ Ge(top_wick(candle), Mul(length(candle), min_wick_ratio))
         /\ Ge(bottom_wick(candle), Mul(length(candle), min_wick_ratio))

is_hammer(candle, max_body_ratio, top_wick_ratio, bottom_wick_ratio) ==
    IF length(candle) = Zero THEN FALSE
    ELSE /\ Le(body_ratio(candle), max_body_ratio)
         /\ Le(top_wick(candle), Mul(length(candle), top_wick_ratio))
         /\ Ge(bottom_wick(candle), Mul(length(candle), bottom_wick_ratio))

is_hanging_man_strict(candle, max_body_ratio, top_wick_ratio, bottom_wick_ratio) ==
    IF length(candle) = Zero THEN FALSE
    ELSE /\ Le(body_ratio(candle), max_body_ratio)
         /\ Lt(top_wick(candle), Mul(length(candle), top_wick_ratio))
         /\ Gt(bottom_wick(candle), Mul(length(candle), bottom_wick_ratio))

is_hanging_man(candle, max_body_ratio, top_wick_ratio, bottom_wick_ratio) ==
    IF length(candle) = Zero THEN FALSE
    ELSE /\ Le(body_ratio(candle), max_body_ratio)
         /\ Le(top_wick(candle), Mul(length(candle), top_wick_ratio))
         /\ Ge(bottom_wick(candle), Mul(length(candle), bottom_wick_ratio))

is_inverted_hammer(candle, max_body_ratio, top_wick_ratio, bottom_wick_ratio) ==
    IF length(candle) = Zero THEN FALSE
    ELSE /\ Le(body_ratio(candle), max_body_ratio)
         /\ Ge(top_wick(candle), Mul(length(candle), top_wick_ratio))
         /\ Le(bottom_wick(candle), Mul(length(candle), bottom_wick_ratio))

is_shooting_star(candle, max_body_ratio, top_wick_ratio, bottom_wick_ratio) ==
    IF length(candle) = Zero THEN FALSE
    ELSE /\ Le(body_ratio(candle), max_body_ratio)
         /\ Ge(top_wick(candle), Mul(length(candle), top_wick_ratio))
         /\ Le(bottom_wick(candle), Mul(length(candle), bottom_wick_ratio))

is_spinning_top(candle, max_body_ratio, min_wick_ratio) ==
    IF length(candle) = Zero THEN FALSE
    ELSE /\ Le(body_ratio(candle), max_body_ratio)
         /\ Ge(top_wick(candle), Mul(length(candle), min_wick_ratio))
         /\ Ge(bottom_wick(candle), Mul(length(candle), min_wick_ratio))

is_marubozu(candle, max_wick_ratio) ==
    IF length(candle) = Zero THEN FALSE
    ELSE /\ Le(top_wick(candle), Mul(length(candle), max_wick_ratio))
         /\ Le(bottom_wick(candle), Mul(length(candle), max_wick_ratio))

\* the float literals 1e-5 and 1e-9 of the belt-hold tolerance
RelTol == R(1, 100000)
AbsFloor == R(1, 1000000000)

is_bullish_belt_hold(candle, min_body_ratio, max_lower_wick_ratio) ==
    IF length(candle) = Zero THEN FALSE
    ELSE LET open_eq_low ==
                 Le(Abs(Sub(candle.open, candle.low)),
                    Max(Mul(candle.low, RelTol), AbsFloor))
         IN  /\ is_thick_bullish(candle, min_body_ratio)
             /\ Le(bottom_wick(candle),
                   Mul(length(candle), max_lower_wick_ratio))
             /\ open_eq_low

is_bearish_belt_hold(candle, min_body_ratio, max_upper_wick_ratio) ==
    IF length(candle) = Zero THEN FALSE
    ELSE LET open_eq_high ==
                 Le(Abs(Sub(candle.open, candle.high)),
                    Max(Mul(candle.high, RelTol), AbsFloor))
         IN  /\ is_thick_bearish(candle, min_body_ratio)
             /\ Le(top_wick(candle),
                   Mul(length(candle), max_upper_wick_ratio))
             /\ open_eq_high

-----------------------------------------------------------------------------
(* src/patterns.py: two-candle patterns *)

\* candles[-k] of a Python list: the k-th bar from the end, an IndexError
\* when the list holds fewer than k bars
Indexable(w, k) == k <= Len(w)
At(w, k) == w[Len(w) - k + 1]

\* the attributes and properties a CandleStick has
CandleStickAttributes ==
    {"open", "high", "low", "close", "top_wick", "bottom_wick", "body_length",
     "body_average", "length", "is_bullish", "body_ratio", "body_low",
     "body_high"}

is_bullish_engulfing(w, min_body_ratio) ==
    IF Len(w) < 2 THEN "False"
    ELSE IF ~Indexable(w, 2) THEN "IndexError"
    ELSE LET prev == At(w, 2)
             curr == At(w, 1)
         IN  IF length(prev) = Zero \/ length(curr) = Zero THEN "False"
             ELSE Ret(/\ is_thick_bearish(prev, min_body_ratio)
                      /\ is_thick_bullish(curr, min_body_ratio)
                      /\ body_engulfs(prev, curr))

is_bearish_engulfing_copied(w, min_body_ratio) ==
    IF Len(w) < 2 THEN "False"
    ELSE IF ~Indexable(w, 2) THEN "IndexError"
    ELSE LET prev == At(w, 2)
             curr == At(w, 1)
         IN  IF length(prev) = Zero \/ length(curr) = Zero THEN "False"
             ELSE Ret(/\ is_thick_bearish(prev, min_body_ratio)
                      /\ is_thick_bullish(curr, min_body_ratio)
                      /\ body_engulfs(prev, curr))

is_bearish_engulfing(w, min_body_ratio) ==
    IF Len(w) < 2 THEN "False"
    ELSE IF ~Indexable(w, 2) THEN "IndexError"
    ELSE LET prev == At(w, 2)
             curr == At(w, 1)
         IN  IF length(prev) = Zero \/ length(curr) = Zero THEN "False"
             ELSE Ret(/\ is_thick_bullish(prev, min_body_ratio)
                      /\ is_thick_bearish(curr, min_body_ratio)
                      /\ body_engulfed(prev, curr))

is_piercing_line(w, min_body_ratio, min_penetration) ==
    IF Len(w) < 2 THEN "False"
    ELSE IF ~Indexable(w, 2) THEN "IndexError"
    ELSE LET prev == At(w, 2)
             curr == At(w, 1)
             body_prev == Sub(prev.open, prev.close)
             penetration == Sub(curr.close, prev.close)
         IN  IF length(prev) = Zero THEN "False"
             ELSE Ret(/\ is_thick_bearish(prev, min_body_ratio)
                      /\ is_thick_bullish(curr, min_body_ratio)
                      /\ gap_down(prev, curr)
                      /\ Ge(penetration, Mul(body_prev, min_penetration)))

is_dark_cloud_cover(w, min_body_ratio, min_penetration) ==
    IF Len(w) < 2 THEN "False"
    ELSE IF ~Indexable(w, 2) THEN "IndexError"
    ELSE LET prev == At(w, 2)
             curr == At(w, 1)
             body_prev == Sub(prev.close, prev.open)
             penetration == Sub(prev.close, curr.close)
         IN  IF length(prev) = Zero THEN "False"
             ELSE Ret(/\ is_thick_bullish(prev, min_body_ratio)
                      /\ is_thick_bearish(curr, min_body_ratio)
                      /\ gap_up(prev, curr)
                      /\ Ge(penetration, Mul(body_prev, min_penetration)))

\* a Bullish Harami that does not look where the second body lies
is_bullish_harami_uncontained(w, min_body_ratio, max_inside_body_ratio) ==
    IF Len(w) < 2 THEN "False"
    ELSE IF ~Indexable(w, 2) THEN "IndexError"
    ELSE LET prev == At(w, 2)
             curr == At(w, 1)
         IN  IF length(prev) = Zero \/ length(curr) = Zero THEN "False"
             ELSE Ret(/\ is_thick_bearish(prev, min_body_ratio)
                      /\ is_thin_bullish(curr, max_inside_body_ratio))

is_bullish_harami(w, min_body_ratio, max_inside_body_ratio) ==
    IF Len(w) < 2 THEN "False"
    ELSE IF ~Indexable(w, 2) THEN "IndexError"
    ELSE LET prev == At(w, 2)
             curr == At(w, 1)
             prev_body_low == Min(prev.open, prev.close)
             prev_body_high == Max(prev.open, prev.close)
             curr_body_contained ==
                 /\ Le(prev_body_low, curr.open) /\ Le(curr.open, prev_body_high)
                 /\ Le(prev_body_low, curr.close) /\ Le(curr.close, prev_body_high)
         IN  IF length(prev) = Zero \/ length(curr) = Zero THEN "False"
             ELSE Ret(/\ is_thick_bearish(prev, min_body_ratio)
                      /\ is_thin_bullish(curr, max_inside_body_ratio)
                      /\ curr_body_contained)

is_bearish_harami(w, min_body_ratio, max_inside_body_ratio) ==
    IF Len(w) < 2 THEN "False"
    ELSE IF ~Indexable(w, 2) THEN "IndexError"
    ELSE LET prev == At(w, 2)
             curr == At(w, 1)
             prev_body_low == Min(prev.open, prev.close)
             prev_body_high == Max(prev.open, prev.close)
             curr_body_contained ==
                 /\ Le(prev_body_low, curr.open) /\ Le(curr.open, prev_body_high)
                 /\ Le(prev_body_low, curr.close) /\ Le(curr.close, prev_body_high)
         IN  IF length(prev) = Zero \/ length(curr) = Zero THEN "False"
             ELSE Ret(/\ is_thick_bullish(prev, min_body_ratio)
                      /\ is_thin_bearish(curr, max_inside_body_ratio)
                      /\ curr_body_contained)

\* `and` and `or` evaluate left to right and stop early: curr.is_bearish is
\* read exactly when the first candle is thick bullish, and CandleStick has no
\* such attribute
is_tweezer_tops(w, min_body_ratio, price_tolerance) ==
    IF Len(w) < 2 THEN "False"
    ELSE IF ~Indexable(w, 2) THEN "IndexError"
    ELSE LET prev == At(w, 2)
             curr == At(w, 1)
             avg_length == Div(Add(length(prev), length(curr)), Two)
         IN  IF avg_length = Zero THEN "False"
             ELSE IF ~is_thick_bullish(prev, min_body_ratio) THEN "False"
             ELSE IF "is_bearish" \notin CandleStickAttributes
                  THEN "AttributeError"
             ELSE Ret(/\ (\/ ~is_bullish(curr)
                          \/ Gt(top_wick(curr), body_length(curr)))
                      /\ Le(Abs(Sub(prev.high, curr.high)),
                            Mul(avg_length, price_tolerance)))

is_tweezer_bottoms(w, min_body_ratio, price_tolerance) ==
    IF Len(w) < 2 THEN "False"
    ELSE IF ~Indexable(w, 2) THEN "IndexError"
    ELSE LET prev == At(w, 2)
             curr == At(w, 1)
             avg_length == Div(Add(length(prev), length(curr)), Two)
         IN  IF avg_length = Zero THEN "False"
             ELSE Ret(/\ is_thick_bearish(prev, min_body_ratio)
                      /\ (\/ is_bullish(curr)
                          \/ Gt(bottom_wick(curr), body_length(curr)))
                      /\ Le(Abs(Sub(prev.low, curr.low)),
                            Mul(avg_length, price_tolerance)))

is_bullish_kicking(w, max_wick_ratio) ==
    IF Len(w) < 2 THEN "False"
    ELSE IF ~Indexable(w, 2) THEN "IndexError"
    ELSE LET prev == At(w, 2)
             curr == At(w, 1)
         IN  IF length(prev) = Zero \/ length(curr) = Zero THEN "False"
             ELSE Ret(/\ ~is_bullish(prev)
                      /\ is_marubozu(prev, max_wick_ratio)
                      /\ is_bullish(curr)
                      /\ is_marubozu(curr, max_wick_ratio)
                      /\ gap_up(prev, curr))

is_bearish_kicking(w, max_wick_ratio) ==
    IF Len(w) < 2 THEN "False"
    ELSE IF ~Indexable(w, 2) THEN "IndexError"
    ELSE LET prev == At(w, 2)
             curr == At(w, 1)
         IN  IF length(prev) = Zero \/ length(curr) = Zero THEN "False"
             ELSE Ret(/\ is_bullish(prev)
                      /\ is_marubozu(prev, max_wick_ratio)
                      /\ ~is_bullish(curr)
                      /\ is_marubozu(curr, max_wick_ratio)
                      /\ gap_down(prev, curr))

is_bullish_counterattack(w, max_body_ratio, close_tolerance) ==
    IF Len(w) < 2 THEN "False"
    ELSE IF ~Indexable(w, 2) THEN "IndexError"
    ELSE LET prev == At(w, 2)
             curr == At(w, 1)
         IN  IF length(prev) = Zero THEN "False"
             ELSE Ret(/\ ~is_bullish(prev)
                      /\ gap_down(prev, curr)
                      /\ Le(Abs(Sub(curr.close, prev.close)),
                            Mul(length(prev), close_tolerance))
                      /\ Ge(body_length(curr), Mul(body_length(prev), Half))
                      /\ is_thin_enough(curr, max_body_ratio))

is_bearish_counterattack(w, max_body_ratio, close_tolerance) ==
    IF Len(w) < 2 THEN "False"
    ELSE IF ~Indexable(w, 2) THEN "IndexError"
    ELSE LET prev == At(w, 2)
             curr == At(w, 1)
         IN  IF length(prev) = Zero THEN "False"
             ELSE Ret(/\ is_bullish(prev)
                      /\ gap_up(prev, curr)
                      /\ Le(Abs(Sub(curr.close, prev.close)),
                            Mul(length(prev), close_tolerance))
                      /\ Ge(body_length(curr), Mul(body_length(prev), Half))
                      /\ is_thin_enough(curr, max_body_ratio))

-----------------------------------------------------------------------------
(* src/patterns.py: three-candle patterns *)

\* the float literals of the three-candle patterns
Tol5Pct == R(5, 100)
DojiRatio == R(5, 100)
SmallBody == R(3, 10)
BreakawayDoji == R(1, 10)
SwallowWick == R(3, 100)

\* a Morning Star whose middle body must stay strictly under the threshold
is_morning_star_strict_middle(w, min_body_ratio, max_middle_body_ratio) ==
    IF Len(w) < 3 THEN "False"
    ELSE IF ~Indexable(w, 3) THEN "IndexError"
    ELSE LET prev == At(w, 3)
             curr == At(w, 2)
             nxt == At(w, 1)
         IN  IF length(prev) = Zero \/ length(curr) = Zero \/ length(nxt) = Zero
             THEN "False"
             ELSE Ret(/\ is_thick_bearish(prev, min_body_ratio)
                      /\ Lt(body_ratio(curr), max_middle_body_ratio)
                      /\ is_thick_bullish(nxt, min_body_ratio)
                      /\ gap_down(prev, curr)
                      /\ Gt(nxt.close, Div(Add(prev.open, prev.close), Two)))

is_morning_star(w, min_body_ratio, max_middle_body_ratio) ==
    IF Len(w) < 3 THEN "False"
    ELSE IF ~Indexable(w, 3) THEN "IndexError"
    ELSE LET prev == At(w, 3)
             curr == At(w, 2)
             nxt == At(w, 1)
         IN  IF length(prev) = Zero \/ length(curr) = Zero \/ length(nxt) = Zero
             THEN "False"
             ELSE Ret(/\ is_thick_bearish(prev, min_body_ratio)
                      /\ Le(body_ratio(curr), max_middle_body_ratio)
                      /\ is_thick_bullish(nxt, min_body_ratio)
                      /\ gap_down(prev, curr)
                      /\ Gt(nxt.close, Div(Add(prev.open, prev.close), Two)))

is_evening_star(w, min_body_ratio, max_middle_body_ratio) ==
    IF Len(w) < 3 THEN "False"
    ELSE IF ~Indexable(w, 3) THEN "IndexError"
    ELSE LET prev == At(w, 3)
             curr == At(w, 2)
             nxt == At(w, 1)
         IN  IF length(prev) = Zero \/ length(curr) = Zero \/ length(nxt) = Zero
             THEN "False"
             ELSE Ret(/\ is_thick_bullish(prev, min_body_ratio)
                      /\ Le(body_ratio(curr), max_middle_body_ratio)
                      /\ is_thick_bearish(nxt, min_body_ratio)
                      /\ gap_up(prev, curr)
                      /\ Lt(nxt.close, Div(Add(prev.open, prev.close), Two)))

is_three_white_soldiers(w, min_body_ratio) ==
    IF Len(w) < 3 THEN "False"
    ELSE IF ~Indexable(w, 3) THEN "IndexError"
    ELSE LET prev == At(w, 3)
             curr == At(w, 2)
             nxt == At(w, 1)
             tolerance == Mul(Max3(length(prev), length(curr), length(nxt)), Tol5Pct)
         IN  IF length(prev) = Zero \/ length(curr) = Zero \/ length(nxt) = Zero
             THEN "False"
             ELSE Ret(/\ is_thick_bullish(prev, min_body_ratio)
                      /\ is_thick_bullish(curr, min_body_ratio)
                      /\ is_thick_bullish(nxt, min_body_ratio)
                      /\ Le(Abs(Sub(curr.open, Div(Add(prev.open, prev.close), Two))), tolerance)
                      /\ Le(Abs(Sub(nxt.open, Div(Add(curr.open, curr.close), Two))), tolerance)
                      /\ Gt(curr.close, prev.close)
                      /\ Gt(nxt.close, curr.close))

is_three_black_crows(w, min_body_ratio) ==
    IF Len(w) < 3 THEN "False"
    ELSE IF ~Indexable(w, 3) THEN "IndexError"
    ELSE LET prev == At(w, 3)
             curr == At(w, 2)
             nxt == At(w, 1)
             tolerance == Mul(Max3(length(prev), length(curr), length(nxt)), Tol5Pct)
         IN  IF length(prev) = Zero \/ length(curr) = Zero \/ length(nxt) = Zero
             THEN "False"
             ELSE Ret(/\ is_thick_bearish(prev, min_body_ratio)
                      /\ is_thick_bearish(curr, min_body_ratio)
                      /\ is_thick_bearish(nxt, min_body_ratio)
                      /\ Le(Abs(Sub(curr.open, Div(Add(prev.open, prev.close), Two))), tolerance)
                      /\ Le(Abs(Sub(nxt.open, Div(Add(curr.open, curr.close), Two))), tolerance)
                      /\ Lt(curr.close, prev.close)
                      /\ Lt(nxt.close, curr.close))

is_morning_doji_star(w, min_body_ratio, max_doji_body_ratio) ==
    IF Len(w) < 3 THEN "False"
    ELSE IF ~Indexable(w, 3) THEN "IndexError"
    ELSE LET prev == At(w, 3)
             curr == At(w, 2)
             nxt == At(w, 1)
         IN  IF length(prev) = Zero \/ length(curr) = Zero \/ length(nxt) = Zero
             THEN "False"
             ELSE Ret(/\ is_doji(curr, max_doji_body_ratio)
                      /\ is_thick_bearish(prev, min_body_ratio)
                      /\ is_thick_bullish(nxt, min_body_ratio)
                      /\ gap_down(prev, curr)
                      /\ Gt(nxt.close, Div(Add(prev.open, prev.close), Two)))

is_evening_doji_star(w, min_body_ratio, max_doji_body_ratio) ==
    IF Len(w) < 3 THEN "False"
    ELSE IF ~Indexable(w, 3) THEN "IndexError"
    ELSE LET prev == At(w, 3)
             curr == At(w, 2)
             nxt == At(w, 1)
         IN  IF length(prev) = Zero \/ length(curr) = Zero \/ length(nxt) = Zero
             THEN "False"
             ELSE Ret(/\ is_doji(curr, max_doji_body_ratio)
                      /\ is_thick_bullish(prev, min_body_ratio)
                      /\ is_thick_bearish(nxt, min_body_ratio)
                      /\ gap_up(prev, curr)
                      /\ Lt(nxt.close, Div(Add(prev.open, prev.close), Two)))

is_bullish_tasuki_gap(w, min_body_ratio) ==
    IF Len(w) < 3 THEN "False"
    ELSE IF ~Indexable(w, 3) THEN "IndexError"
    ELSE LET prev == At(w, 3)
             curr == At(w, 2)
             nxt == At(w, 1)
         IN  IF length(prev) = Zero \/ length(curr) = Zero \/ length(nxt) = Zero
             THEN "False"
             ELSE IF ~(is_bullish(prev) /\ is_bullish(curr)) THEN "False"
             ELSE IF ~Gt(curr.low, prev.high) THEN "False"
             ELSE IF ~(Gt(nxt.close, prev.high) /\ Lt(nxt.close, curr.low))
                  THEN "False"
             ELSE Ret(/\ is_thick_bullish(prev, min_body_ratio)
                      /\ is_thick_bullish(curr, min_body_ratio)
                      /\ is_bullish(nxt))

is_bearish_tasuki_gap(w, min_body_ratio) ==
    IF Len(w) < 3 THEN "False"
    ELSE IF ~Indexable(w, 3) THEN "IndexError"
    ELSE LET prev == At(w, 3)
             curr == At(w, 2)
             nxt == At(w, 1)
         IN  IF length(prev) = Zero \/ length(curr) = Zero \/ length(nxt) = Zero
             THEN "False"
             ELSE IF ~(~is_bullish(prev) /\ ~is_bullish(curr)) THEN "False"
             ELSE IF ~Lt(curr.high, prev.low) THEN "False"
             ELSE IF ~(Lt(nxt.close, prev.low) /\ Gt(nxt.close, curr.high))
                  THEN "False"
             ELSE Ret(/\ is_thick_bearish(prev, min_body_ratio)
                      /\ is_thick_bearish(curr, min_body_ratio)
                      /\ ~is_bullish(nxt))

is_bullish_abandoned_baby_gap_always(w, max_body_ratio, require_gap) ==
    IF Len(w) < 3 THEN "False"
    ELSE IF ~Indexable(w, 3) THEN "IndexError"
    ELSE LET prev == At(w, 3)
             curr == At(w, 2)
             nxt == At(w, 1)
         IN  IF length(prev) = Zero \/ length(curr) = Zero \/ length(nxt) = Zero
             THEN "False"
             ELSE Ret(/\ ~is_bullish(prev)
                      /\ is_doji(curr, max_body_ratio)
                      /\ is_bullish(nxt)
                      /\ Gt(curr.low, prev.high)
                      /\ Gt(nxt.low, curr.high))

is_bullish_abandoned_baby(w, max_body_ratio, require_gap) ==
    IF Len(w) < 3 THEN "False"
    ELSE IF ~Indexable(w, 3) THEN "IndexError"
    ELSE LET prev == At(w, 3)
             curr == At(w, 2)
             nxt == At(w, 1)
         IN  IF length(prev) = Zero \/ length(curr) = Zero \/ length(nxt) = Zero
             THEN "False"
             ELSE Ret(/\ ~is_bullish(prev)
                      /\ is_doji(curr, max_body_ratio)
                      /\ is_bullish(nxt)
                      /\ (\/ ~require_gap
                          \/ (Gt(curr.low, prev.high) /\ Gt(nxt.low, curr.high))))

is_bearish_abandoned_baby(w, max_body_ratio, require_gap) ==
    IF Len(w) < 3 THEN "False"
    ELSE IF ~Indexable(w, 3) THEN "IndexError"
    ELSE LET prev == At(w, 3)
             curr == At(w, 2)
             nxt == At(w, 1)
         IN  IF length(prev) = Zero \/ length(curr) = Zero \/ length(nxt) = Zero
             THEN "False"
             ELSE Ret(/\ is_bullish(prev)
                      /\ is_doji(curr, max_body_ratio)
                      /\ ~is_bullish(nxt)
                      /\ (\/ ~require_gap
                          \/ (Lt(curr.high, prev.low) /\ Lt(nxt.high, curr.low))))

is_three_inside_up(w, close_above_open) ==
    IF Len(w) < 3 THEN "False"
    ELSE IF ~Indexable(w, 3) THEN "IndexError"
    ELSE LET prev == At(w, 3)
             curr == At(w, 2)
             nxt == At(w, 1)
         IN  IF length(prev) = Zero \/ length(curr) = Zero \/ length(nxt) = Zero
             THEN "False"
             ELSE Ret(/\ ~is_bullish(prev)
                      /\ is_bullish(curr)
                      /\ Le(prev.low, curr.low)
                      /\ Le(curr.high, prev.high)
                      /\ is_bullish(nxt)
                      /\ (~close_above_open \/ Gt(nxt.close, prev.open)))

is_three_inside_down(w, close_below_open) ==
    IF Len(w) < 3 THEN "False"
    ELSE IF ~Indexable(w, 3) THEN "IndexError"
    ELSE LET prev == At(w, 3)
             curr == At(w, 2)
             nxt == At(w, 1)
         IN  IF length(prev) = Zero \/ length(curr) = Zero \/ length(nxt) = Zero
             THEN "False"
             ELSE Ret(/\ is_bullish(prev)
                      /\ ~is_bullish(curr)
                      /\ Le(prev.low, curr.low)
                      /\ Le(curr.high, prev.high)
                      /\ ~is_bullish(nxt)
                      /\ (~close_below_open \/ Lt(nxt.close, prev.open)))

\* strict_engulfing is accepted and never read
is_three_outside_up(w, strict_engulfing) ==
    IF Len(w) < 3 THEN "False"
    ELSE IF ~Indexable(w, 3) THEN "IndexError"
    ELSE LET prev == At(w, 3)
             curr == At(w, 2)
             nxt == At(w, 1)
         IN  IF length(prev) = Zero \/ length(curr) = Zero \/ length(nxt) = Zero
             THEN "False"
             ELSE Ret(/\ ~is_bullish(prev)
                      /\ is_bullish(curr)
                      /\ is_bullish(nxt)
                      /\ Gt(nxt.close, curr.close)
                      /\ body_engulfs(prev, curr))

is_three_outside_down(w, strict_engulfing) ==
    IF Len(w) < 3 THEN "False"
    ELSE IF ~Indexable(w, 3) THEN "IndexError"
    ELSE LET prev == At(w, 3)
             curr == At(w, 2)
             nxt == At(w, 1)
         IN  IF length(prev) = Zero \/ length(curr) = Zero \/ length(nxt) = Zero
             THEN "False"
             ELSE Ret(/\ is_bullish(prev)
                      /\ ~is_bullish(curr)
                      /\ ~is_bullish(nxt)
                      /\ Lt(nxt.close, curr.close)
                      /\ body_engulfed(prev, curr))

is_bullish_stick_sandwich(w, close_tolerance) ==
    IF Len(w) < 3 THEN "False"
    ELSE IF ~Indexable(w, 3) THEN "IndexError"
    ELSE LET prev == At(w, 3)
             curr == At(w, 2)
             nxt == At(w, 1)
         IN  IF length(prev) = Zero
             THEN "False"
             ELSE Ret(/\ ~is_bullish(prev)
                      /\ is_bullish(curr)
                      /\ ~is_bullish(nxt)
                      /\ Le(Abs(Sub(nxt.close, prev.close)),
                            Mul(length(prev), close_tolerance)))

is_bearish_stick_sandwich(w, close_tolerance) ==
    IF Len(w) < 3 THEN "False"
    ELSE IF ~Indexable(w, 3) THEN "IndexError"
    ELSE LET prev == At(w, 3)
             curr == At(w, 2)
             nxt == At(w, 1)
         IN  IF length(prev) = Zero
             THEN "False"
             ELSE Ret(/\ is_bullish(prev)
                      /\ ~is_bullish(curr)
                      /\ is_bullish(nxt)
                      /\ Le(Abs(Sub(nxt.close, prev.close)),
                            Mul(length(prev), close_tolerance)))

is_three_river_bottom(w, min_body_ratio) ==
    IF Len(w) < 3 THEN "False"
    ELSE IF ~Indexable(w, 3) THEN "IndexError"
    ELSE LET prev == At(w, 3)
             curr == At(w, 2)
             nxt == At(w, 1)
         IN  IF length(prev) = Zero \/ length(curr) = Zero \/ length(nxt) = Zero
             THEN "False"
             ELSE Ret(/\ is_thick_bearish(prev, min_body_ratio)
                      /\ is_doji(curr, DojiRatio)
                      /\ is_bullish(nxt)
                      /\ Le(body_ratio(nxt), SmallBody)
                      /\ Lt(curr.low, prev.low)
                      /\ Gt(nxt.low, curr.low)
                      /\ Gt(nxt.close, Div(Add(prev.open, prev.close), Two)))

is_three_mountain_top(w, min_body_ratio) ==
    IF Len(w) < 3 THEN "False"
    ELSE IF ~Indexable(w, 3) THEN "IndexError"
    ELSE LET prev == At(w, 3)
             curr == At(w, 2)
             nxt == At(w, 1)
         IN  IF length(prev) = Zero \/ length(curr) = Zero \/ length(nxt) = Zero
             THEN "False"
             ELSE Ret(/\ is_thick_bullish(prev, min_body_ratio)
                      /\ is_doji(curr, DojiRatio)
                      /\ ~is_bullish(nxt)
                      /\ Le(body_ratio(nxt), SmallBody)
                      /\ Gt(curr.high, prev.high)
                      /\ Lt(nxt.high, curr.high)
                      /\ Lt(nxt.close, Div(Add(prev.open, prev.close), Two)))

is_upside_gap_three_methods(w, min_body_ratio) ==
    IF Len(w) < 3 THEN "False"
    ELSE IF ~Indexable(w, 3) THEN "IndexError"
    ELSE LET prev == At(w, 3)
             curr == At(w, 2)
             nxt == At(w, 1)
         IN  IF length(prev) = Zero \/ length(curr) = Zero \/ length(nxt) = Zero
             THEN "False"
             ELSE Ret(/\ is_thick_bullish(prev, min_body_ratio)
                      /\ is_thick_bullish(curr, min_body_ratio)
                      /\ gap_up(prev, curr)
                      /\ ~is_bullish(nxt)
                      /\ Gt(nxt.close, prev.high)
                      /\ Lt(nxt.close, curr.low))

is_downside_gap_three_methods(w, min_body_ratio) ==
    IF Len(w) < 3 THEN "False"
    ELSE IF ~Indexable(w, 3) THEN "IndexError"
    ELSE LET prev == At(w, 3)
             curr == At(w, 2)
             nxt == At(w, 1)
         IN  IF length(prev) = Zero \/ length(curr) = Zero \/ length(nxt) = Zero
             THEN "False"
             ELSE Ret(/\ is_thick_bearish(prev, min_body_ratio)
                      /\ is_thick_bearish(curr, min_body_ratio)
                      /\ gap_down(prev, curr)
                      /\ is_bullish(nxt)
                      /\ Lt(nxt.close, prev.low)
                      /\ Gt(nxt.close, curr.high))

is_advance_block(w, min_body_ratio) ==
    IF Len(w) < 3 THEN "False"
    ELSE IF ~Indexable(w, 3) THEN "IndexError"
    ELSE LET c1 == At(w, 3)
             c2 == At(w, 2)
             c3 == At(w, 1)
         IN  IF length(c1) = Zero \/ length(c2) = Zero \/ length(c3) = Zero
             THEN "False"
             ELSE Ret(/\ is_thick_bullish(c1, min_body_ratio)
                      /\ is_bullish(c2) /\ is_bullish(c3)
                      /\ Lt(body_ratio(c2), body_ratio(c1))
                      /\ Lt(body_ratio(c3), body_ratio(c2))
                      /\ Gt(top_wick(c2), body_length(c2))
                      /\ Gt(top_wick(c3), body_length(c3)))

is_deliberation(w, min_body_ratio) ==
    IF Len(w) < 3 THEN "False"
    ELSE IF ~Indexable(w, 3) THEN "IndexError"
    ELSE LET c1 == At(w, 3)
             c2 == At(w, 2)
             c3 == At(w, 1)
         IN  IF length(c1) = Zero \/ length(c2) = Zero \/ length(c3) = Zero
             THEN "False"
             ELSE Ret(/\ is_thick_bullish(c1, min_body_ratio)
                      /\ is_thick_bullish(c2, min_body_ratio)
                      /\ is_bullish(c3)
                      /\ Le(body_ratio(c3), SmallBody))

-----------------------------------------------------------------------------
(* src/patterns.py: four- and five-candle patterns *)

is_bullish_breakaway_four(w, min_body_ratio) ==
    IF Len(w) < 4 THEN "False"
    ELSE IF ~Indexable(w, 5) THEN "IndexError"
    ELSE LET c1 == At(w, 5)
             c2 == At(w, 4)
             c3 == At(w, 3)
             c4 == At(w, 2)
             c5 == At(w, 1)
             downtrend == ~is_bullish(c1) /\ ~is_bullish(c2)
         IN  IF length(c1) = Zero \/ length(c5) = Zero THEN "False"
             ELSE Ret(/\ downtrend
                      /\ is_doji(c3, BreakawayDoji)
                      /\ is_thick_bullish(c4, min_body_ratio)
                      /\ is_thick_bullish(c5, min_body_ratio)
                      /\ Gt(c5.close, c1.high))

is_bullish_breakaway(w, min_body_ratio) ==
    IF Len(w) < 5 THEN "False"
    ELSE IF ~Indexable(w, 5) THEN "IndexError"
    ELSE LET c1 == At(w, 5)
             c2 == At(w, 4)
             c3 == At(w, 3)
             c4 == At(w, 2)
             c5 == At(w, 1)
             downtrend == ~is_bullish(c1) /\ ~is_bullish(c2)
         IN  IF length(c1) = Zero \/ length(c5) = Zero THEN "False"
             ELSE Ret(/\ downtrend
                      /\ is_doji(c3, BreakawayDoji)
                      /\ is_thick_bullish(c4, min_body_ratio)
                      /\ is_thick_bullish(c5, min_body_ratio)
                      /\ Gt(c5.close, c1.high))

is_bearish_breakaway(w, min_body_ratio) ==
    IF Len(w) < 5 THEN "False"
    ELSE IF ~Indexable(w, 5) THEN "IndexError"
    ELSE LET c1 == At(w, 5)
             c2 == At(w, 4)
             c3 == At(w, 3)
             c4 == At(w, 2)
             c5 == At(w, 1)
             uptrend == is_bullish(c1) /\ is_bullish(c2)
         IN  IF length(c1) = Zero \/ length(c5) = Zero THEN "False"
             ELSE Ret(/\ uptrend
                      /\ is_doji(c3, BreakawayDoji)
                      /\ is_thick_bearish(c4, min_body_ratio)
                      /\ is_thick_bearish(c5, min_body_ratio)
                      /\ Lt(c5.close, c1.low))

is_concealing_baby_swalllow(w, tolerance) ==
    IF Len(w) < 4 THEN "False"
    ELSE IF ~Indexable(w, 4) THEN "IndexError"
    ELSE LET c1 == At(w, 4)
             c2 == At(w, 3)
             c3 == At(w, 2)
             c4 == At(w, 1)
             open_in_body(curr, prev) ==
                 LET lower == Min(prev.open, prev.close)
                     upper == Max(prev.open, prev.close)
                 IN  /\ Le(Sub(lower, tolerance), curr.open)
                     /\ Le(curr.open, Add(upper, tolerance))
         IN  IF \E c \in {c1, c2, c3, c4} : length(c) = Zero THEN "False"
             ELSE Ret(/\ is_marubozu(c1, SwallowWick)
                      /\ is_marubozu(c2, SwallowWick)
                      /\ is_marubozu(c3, SwallowWick)
                      /\ is_marubozu(c4, SwallowWick)
                      /\ ~is_bullish(c1) /\ ~is_bullish(c2)
                      /\ ~is_bullish(c3) /\ ~is_bullish(c4)
                      /\ open_in_body(c2, c1)
                      /\ open_in_body(c3, c2)
                      /\ open_in_body(c4, c3))

is_ladder_bottom(w, min_body_ratio, min_wick_ratio) ==
    IF Len(w) < 5 THEN "False"
    ELSE IF ~Indexable(w, 5) THEN "IndexError"
    ELSE LET c1 == At(w, 5)
             c2 == At(w, 4)
             c3 == At(w, 3)
             c4 == At(w, 2)
             c5 == At(w, 1)
             downtrend ==
                 /\ ~is_bullish(c1) /\ ~is_bullish(c2)
                 /\ ~is_bullish(c3) /\ ~is_bullish(c4)
                 /\ Lt(c2.low, c1.low) /\ Lt(c3.low, c2.low) /\ Lt(c4.low, c3.low)
             long_wicks ==
                 /\ Ge(bottom_wick(c1), Mul(length(c1), min_wick_ratio))
                 /\ Ge(bottom_wick(c2), Mul(length(c2), min_wick_ratio))
                 /\ Ge(bottom_wick(c3), Mul(length(c3), min_wick_ratio))
                 /\ Ge(bottom_wick(c4), Mul(length(c4), min_wick_ratio))
         IN  IF \E c \in {c1, c2, c3, c4, c5} : length(c) = Zero THEN "False"
             ELSE Ret(/\ downtrend
                      /\ long_wicks
                      /\ is_thick_bullish(c5, min_body_ratio)
                      /\ Gt(c5.close, c4.open))

-----------------------------------------------------------------------------
(* Calls: the caller's window, the operation it evaluates and its outcome. *)
(* A call is made by an idle caller (called = "none").                     *)

\* the default thresholds of the signatures in src/patterns.py
DefaultArgs ==
    [is_thick_enough      |-> <<R(3, 10)>>,
     is_thick_bearish     |-> <<R(3, 10)>>,
     is_thick_bullish     |-> <<R(3, 10)>>,
     is_thin_enough       |-> <<R(3, 10)>>,
     is_thin_bearish      |-> <<R(3, 10)>>,
     is_thin_bullish      |-> <<R(3, 10)>>,
     is_doji              |-> <<R(5, 100)>>,
     is_dragonfly         |-> <<R(5, 100), R(1, 10), R(6, 10)>>,
     is_gravestone        |-> <<R(5, 100), R(6, 10), R(1, 10)>>,
     is_long_legged       |-> <<R(5, 100), R(4, 10)>>,
     is_hammer            |-> <<R(3, 10), R(1, 10), R(6, 10)>>,
     is_hanging_man       |-> <<R(3, 10), R(1, 10), R(6, 10)>>,
     is_inverted_hammer   |-> <<R(3, 10), R(6, 10), R(1, 10)>>,
     is_shooting_star     |-> <<R(3, 10), R(6, 10), R(1, 10)>>,
     is_spinning_top      |-> <<R(5, 10), R(2, 10)>>,
     is_marubozu          |-> <<R(5, 100)>>,
     is_bullish_belt_hold |-> <<R(7, 10), R(5, 100)>>,
     is_bearish_belt_hold |-> <<R(7, 10), R(5, 100)>>,
     is_bullish_engulfing |-> <<R(3, 10)>>,
     is_bearish_engulfing |-> <<R(3, 10)>>,
     is_piercing_line     |-> <<R(3, 10), R(5, 10)>>,
     is_dark_cloud_cover  |-> <<R(3, 10), R(5, 10)>>,
     is_bullish_harami    |-> <<R(3, 10), R(5, 10)>>,
     is_bearish_harami    |-> <<R(3, 10), R(5, 10)>>,
     is_tweezer_tops      |-> <<R(2, 10), R(1, 100)>>,
     is_tweezer_bottoms   |-> <<R(2, 10), R(1, 100)>>,
     is_morning_star      |-> <<R(3, 10), R(1, 10)>>,
     is_evening_star      |-> <<R(3, 10), R(1, 10)>>,
     is_three_white_soldiers |-> <<R(4, 10)>>,
     is_three_black_crows |-> <<R(4, 10)>>,
     is_morning_doji_star |-> <<R(3, 10), R(5, 100)>>,
     is_evening_doji_star |-> <<R(3, 10), R(5, 100)>>,
     is_bullish_tasuki_gap |-> <<R(3, 10)>>,
     is_bearish_tasuki_gap |-> <<R(3, 10)>>,
     is_bullish_kicking   |-> <<R(5, 100)>>,
     is_bearish_kicking   |-> <<R(5, 100)>>,
     is_bullish_abandoned_baby |-> <<R(5, 100)>>,
     is_bearish_abandoned_baby |-> <<R(5, 100)>>,
     is_three_inside_up   |-> <<>>,
     is_three_inside_down |-> <<>>,
     is_three_outside_up  |-> <<>>,
     is_three_outside_down |-> <<>>,
     is_bullish_stick_sandwich |-> <<R(5, 1000)>>,
     is_bearish_stick_sandwich |-> <<R(5, 1000)>>,
     is_bullish_counterattack |-> <<R(5, 100), R(1, 100)>>,
     is_bearish_counterattack |-> <<R(5, 100), R(1, 100)>>,
     is_three_river_bottom |-> <<R(3, 10)>>,
     is_three_mountain_top |-> <<R(3, 10)>>,
     is_upside_gap_three_methods |-> <<R(3, 10)>>,
     is_downside_gap_three_methods |-> <<R(3, 10)>>,
     is_bullish_breakaway |-> <<R(3, 10)>>,
     is_bearish_breakaway |-> <<R(3, 10)>>,
     is_concealing_baby_swalllow |-> <<R(1, 100000)>>,
     is_ladder_bottom     |-> <<R(3, 10), R(6, 10)>>,
     is_advance_block     |-> <<R(3, 10)>>,
     is_deliberation      |-> <<R(3, 10)>>]

\* the default of the boolean parameter (require_gap, close_above_open,
\* close_below_open, strict_engulfing) of the predicates that take one
DefaultFlags(name) ==
    IF name \in {"is_bullish_abandoned_baby", "is_bearish_abandoned_baby",
                 "is_three_inside_up", "is_three_inside_down",
                 "is_three_outside_up", "is_three_outside_down"}
    THEN <<TRUE>> ELSE <<>>

\* the thresholds a caller passes: some ratios, or the parameter's default
Thresholds == {Zero, R(1, 10), R(3, 10), R(6, 10)}

ArgSet(name, i) == Thresholds \cup {DefaultArgs[name][i]}

\* the most recent bar of the window
Last(w) == w[Len(w)]

\* a call that takes the most recent bar off the caller's window
ReturnsWith_pop(name, a, f, r) ==
    /\ called' = name
    /\ args' = a
    /\ flags' = f
    /\ result' = r
    /\ candles' = IF candles = <<>> THEN candles
                  ELSE SubSeq(candles, 1, Len(candles) - 1)

\* a call leaves its outcome with the caller and the window as it was
ReturnsWith(name, a, f, r) ==
    /\ called' = name
    /\ args' = a
    /\ flags' = f
    /\ result' = r
    /\ UNCHANGED candles

Returns(name, a, r) == ReturnsWith(name, a, <<>>, r)

Get_top_wick ==
    /\ called = "none"
    /\ candles /= <<>>
    /\ Returns("top_wick", <<>>, top_wick(Last(candles)))
Get_bottom_wick ==
    /\ called = "none"
    /\ candles /= <<>>
    /\ Returns("bottom_wick", <<>>, bottom_wick(Last(candles)))
Get_body_length ==
    /\ called = "none"
    /\ candles /= <<>>
    /\ Returns("body_length", <<>>, body_length(Last(candles)))
Get_body_average ==
    /\ called = "none"
    /\ candles /= <<>>
    /\ Returns("body_average", <<>>, body_average(Last(candles)))
Get_length ==
    /\ called = "none"
    /\ candles /= <<>>
    /\ Returns("length", <<>>, length(Last(candles)))
Get_body_ratio ==
    /\ called = "none"
    /\ candles /= <<>>
    /\ Returns("body_ratio", <<>>, body_ratio(Last(candles)))
Get_body_low ==
    /\ called = "none"
    /\ candles /= <<>>
    /\ Returns("body_low", <<>>, body_low(Last(candles)))
Get_body_high ==
    /\ called = "none"
    /\ candles /= <<>>
    /\ Returns("body_high", <<>>, body_high(Last(candles)))
Get_top_wick_rounded ==
    /\ called = "none"
    /\ candles /= <<>>
    /\ Returns("top_wick", <<>>, top_wick_rounded(Last(candles)))
Get_bottom_wick_rounded ==
    /\ called = "none"
    /\ candles /= <<>>
    /\ Returns("bottom_wick", <<>>, bottom_wick_rounded(Last(candles)))
Get_body_length_rounded ==
    /\ called = "none"
    /\ candles /= <<>>
    /\ Returns("body_length", <<>>, body_length_rounded(Last(candles)))
Get_length_rounded ==
    /\ called = "none"
    /\ candles /= <<>>
    /\ Returns("length", <<>>, length_rounded(Last(candles)))
Get_is_bullish ==
    /\ called = "none"
    /\ candles /= <<>>
    /\ Returns("is_bullish", <<>>, Ret(is_bullish(Last(candles))))

Call_is_thick_enough ==
    /\ called = "none"
    /\ candles /= <<>>
    /\ \E a \in ArgSet("is_thick_enough", 1) :
          Returns("is_thick_enough", <<a>>, Ret(is_thick_enough(Last(candles), a)))
Call_is_thick_bearish ==
    /\ called = "none"
    /\ candles /= <<>>
    /\ \E a \in ArgSet("is_thick_bearish", 1) :
          Returns("is_thick_bearish", <<a>>, Ret(is_thick_bearish(Last(candles), a)))
Call_is_thick_bullish ==
    /\ called = "none"
    /\ candles /= <<>>
    /\ \E a \in ArgSet("is_thick_bullish", 1) :
          Returns("is_thick_bullish", <<a>>, Ret(is_thick_bullish(Last(candles), a)))
Call_is_thin_enough ==
    /\ called = "none"
    /\ candles /= <<>>
    /\ \E a \in ArgSet("is_thin_enough", 1) :
          Returns("is_thin_enough", <<a>>, Ret(is_thin_enough(Last(candles), a)))
Call_is_thin_bearish ==
    /\ called = "none"
    /\ candles /= <<>>
    /\ \E a \in ArgSet("is_thin_bearish", 1) :
          Returns("is_thin_bearish", <<a>>, Ret(is_thin_bearish(Last(candles), a)))
Call_is_thin_bullish ==
    /\ called = "none"
    /\ candles /= <<>>
    /\ \E a \in ArgSet("is_thin_bullish", 1) :
          Returns("is_thin_bullish", <<a>>, Ret(is_thin_bullish(Last(candles), a)))

Call_is_doji ==
    /\ called = "none"
    /\ candles /= <<>>
    /\ \E a \in ArgSet("is_doji", 1) :
          Returns("is_doji", <<a>>, Ret(is_doji(Last(candles), a)))
Call_is_dragonfly ==
    /\ called = "none"
    /\ candles /= <<>>
    /\ \E a \in ArgSet("is_dragonfly", 1), b \in ArgSet("is_dragonfly", 2),
          c \in ArgSet("is_dragonfly", 3) :
          Returns("is_dragonfly", <<a, b, c>>, Ret(is_dragonfly(Last(candles), a, b, c)))
Call_is_gravestone ==
    /\ called = "none"
    /\ candles /= <<>>
    /\ \E a \in ArgSet("is_gravestone", 1), b \in ArgSet("is_gravestone", 2),
          c \in ArgSet("is_gravestone", 3) :
          Returns("is_gravestone", <<a, b, c>>, Ret(is_gravestone(Last(candles), a, b, c)))
Call_is_long_legged ==
    /\ called = "none"
    /\ candles /= <<>>
    /\ \E a \in ArgSet("is_long_legged", 1), b \in ArgSet("is_long_legged", 2) :
          Returns("is_long_legged", <<a, b>>, Ret(is_long_legged(Last(candles), a, b)))
Call_is_hammer ==
    /\ called = "none"
    /\ candles /= <<>>
    /\ \E a \in ArgSet("is_hammer", 1), b \in ArgSet("is_hammer", 2),
          c \in ArgSet("is_hammer", 3) :
          Returns("is_hammer", <<a, b, c>>, Ret(is_hammer(Last(candles), a, b, c)))
Call_is_hanging_man ==
    /\ called = "none"
    /\ candles /= <<>>
    /\ \E a \in ArgSet("is_hanging_man", 1), b \in ArgSet("is_hanging_man", 2),
          c \in ArgSet("is_hanging_man", 3) :
          Returns("is_hanging_man", <<a, b, c>>, Ret(is_hanging_man(Last(candles), a, b, c)))
Call_is_inverted_hammer ==
    /\ called = "none"
    /\ candles /= <<>>
    /\ \E a \in ArgSet("is_inverted_hammer", 1), b \in ArgSet("is_inverted_hammer", 2),
          c \in ArgSet("is_inverted_hammer", 3) :
          Returns("is_inverted_hammer", <<a, b, c>>, Ret(is_inverted_hammer(Last(candles), a, b, c)))
Call_is_shooting_star ==
    /\ called = "none"
    /\ candles /= <<>>
    /\ \E a \in ArgSet("is_shooting_star", 1), b \in ArgSet("is_shooting_star", 2),
          c \in ArgSet("is_shooting_star", 3) :
          Returns("is_shooting_star", <<a, b, c>>, Ret(is_shooting_star(Last(candles), a, b, c)))
Call_is_spinning_top ==
    /\ called = "none"
    /\ candles /= <<>>
    /\ \E a \in ArgSet("is_spinning_top", 1), b \in ArgSet("is_spinning_top", 2) :
          Returns("is_spinning_top", <<a, b>>, Ret(is_spinning_top(Last(candles), a, b)))
Call_is_marubozu ==
    /\ called = "none"
    /\ candles /= <<>>
    /\ \E a \in ArgSet("is_marubozu", 1) :
          Returns("is_marubozu", <<a>>, Ret(is_marubozu(Last(candles), a)))
Call_is_bullish_belt_hold ==
    /\ called = "none"
    /\ candles /= <<>>
    /\ \E a \in ArgSet("is_bullish_belt_hold", 1), b \in ArgSet("is_bullish_belt_hold", 2) :
          Returns("is_bullish_belt_hold", <<a, b>>, Ret(is_bullish_belt_hold(Last(candles), a, b)))
Call_is_bearish_belt_hold ==
    /\ called = "none"
    /\ candles /= <<>>
    /\ \E a \in ArgSet("is_bearish_belt_hold", 1), b \in ArgSet("is_bearish_belt_hold", 2) :
          Returns("is_bearish_belt_hold", <<a, b>>, Ret(is_bearish_belt_hold(Last(candles), a, b)))

Call_is_bullish_engulfing ==
    /\ called = "none"
    /\ \E a \in ArgSet("is_bullish_engulfing", 1) :
          Returns("is_bullish_engulfing", <<a>>, is_bullish_engulfing(candles, a))
Call_is_bearish_engulfing ==
    /\ called = "none"
    /\ \E a \in ArgSet("is_bearish_engulfing", 1) :
          Returns("is_bearish_engulfing", <<a>>, is_bearish_engulfing(candles, a))
Call_is_piercing_line ==
    /\ called = "none"
    /\ \E a \in ArgSet("is_piercing_line", 1), b \in ArgSet("is_piercing_line", 2) :
          Returns("is_piercing_line", <<a, b>>, is_piercing_line(candles, a, b))
Call_is_dark_cloud_cover ==
    /\ called = "none"
    /\ \E a \in ArgSet("is_dark_cloud_cover", 1), b \in ArgSet("is_dark_cloud_cover", 2) :
          Returns("is_dark_cloud_cover", <<a, b>>, is_dark_cloud_cover(candles, a, b))
Call_is_bullish_harami ==
    /\ called = "none"
    /\ \E a \in ArgSet("is_bullish_harami", 1), b \in ArgSet("is_bullish_harami", 2) :
          Returns("is_bullish_harami", <<a, b>>, is_bullish_harami(candles, a, b))
Call_is_bearish_harami ==
    /\ called = "none"
    /\ \E a \in ArgSet("is_bearish_harami", 1), b \in ArgSet("is_bearish_harami", 2) :
          Returns("is_bearish_harami", <<a, b>>, is_bearish_harami(candles, a, b))
Call_is_tweezer_tops ==
    /\ called = "none"
    /\ \E a \in ArgSet("is_tweezer_tops", 1), b \in ArgSet("is_tweezer_tops", 2) :
          Returns("is_tweezer_tops", <<a, b>>, is_tweezer_tops(candles, a, b))
Call_is_tweezer_bottoms ==
    /\ called = "none"
    /\ \E a \in ArgSet("is_tweezer_bottoms", 1), b \in ArgSet("is_tweezer_bottoms", 2) :
          Returns("is_tweezer_bottoms", <<a, b>>, is_tweezer_bottoms(candles, a, b))
Call_is_morning_star ==
    /\ called = "none"
    /\ \E a \in ArgSet("is_morning_star", 1), b \in ArgSet("is_morning_star", 2) :
          Returns("is_morning_star", <<a, b>>, is_morning_star(candles, a, b))
Call_is_evening_star ==
    /\ called = "none"
    /\ \E a \in ArgSet("is_evening_star", 1), b \in ArgSet("is_evening_star", 2) :
          Returns("is_evening_star", <<a, b>>, is_evening_star(candles, a, b))
Call_is_three_white_soldiers ==
    /\ called = "none"
    /\ \E a \in ArgSet("is_three_white_soldiers", 1) :
          Returns("is_three_white_soldiers", <<a>>, is_three_white_soldiers(candles, a))
Call_is_three_black_crows ==
    /\ called = "none"
    /\ \E a \in ArgSet("is_three_black_crows", 1) :
          Returns("is_three_black_crows", <<a>>, is_three_black_crows(candles, a))
Call_is_morning_doji_star ==
    /\ called = "none"
    /\ \E a \in ArgSet("is_morning_doji_star", 1), b \in ArgSet("is_morning_doji_star", 2) :
          Returns("is_morning_doji_star", <<a, b>>, is_morning_doji_star(candles, a, b))
Call_is_evening_doji_star ==
    /\ called = "none"
    /\ \E a \in ArgSet("is_evening_doji_star", 1), b \in ArgSet("is_evening_doji_star", 2) :
          Returns("is_evening_doji_star", <<a, b>>, is_evening_doji_star(candles, a, b))
Call_is_bullish_tasuki_gap ==
    /\ called = "none"
    /\ \E a \in ArgSet("is_bullish_tasuki_gap", 1) :
          Returns("is_bullish_tasuki_gap", <<a>>, is_bullish_tasuki_gap(candles, a))
Call_is_bearish_tasuki_gap ==
    /\ called = "none"
    /\ \E a \in ArgSet("is_bearish_tasuki_gap", 1) :
          Returns("is_bearish_tasuki_gap", <<a>>, is_bearish_tasuki_gap(candles, a))
Call_is_bullish_kicking ==
    /\ called = "none"
    /\ \E a \in ArgSet("is_bullish_kicking", 1) :
          Returns("is_bullish_kicking", <<a>>, is_bullish_kicking(candles, a))
Call_is_bearish_kicking ==
    /\ called = "none"
    /\ \E a \in ArgSet("is_bearish_kicking", 1) :
          Returns("is_bearish_kicking", <<a>>, is_bearish_kicking(candles, a))
Call_is_bullish_abandoned_baby ==
    /\ called = "none"
    /\ \E a \in ArgSet("is_bullish_abandoned_baby", 1), f \in BOOLEAN :
          ReturnsWith("is_bullish_abandoned_baby", <<a>>, <<f>>, is_bullish_abandoned_baby(candles, a, f))
Call_is_bearish_abandoned_baby ==
    /\ called = "none"
    /\ \E a \in ArgSet("is_bearish_abandoned_baby", 1), f \in BOOLEAN :
          ReturnsWith("is_bearish_abandoned_baby", <<a>>, <<f>>, is_bearish_abandoned_baby(candles, a, f))
Call_is_three_inside_up ==
    /\ called = "none"
    /\ \E f \in BOOLEAN :
          ReturnsWith("is_three_inside_up", <<>>, <<f>>, is_three_inside_up(candles, f))
Call_is_three_inside_down ==
    /\ called = "none"
    /\ \E f \in BOOLEAN :
          ReturnsWith("is_three_inside_down", <<>>, <<f>>, is_three_inside_down(candles, f))
Call_is_three_outside_up ==
    /\ called = "none"
    /\ \E f \in BOOLEAN :
          ReturnsWith("is_three_outside_up", <<>>, <<f>>, is_three_outside_up(candles, f))
Call_is_three_outside_down ==
    /\ called = "none"
    /\ \E f \in BOOLEAN :
          ReturnsWith("is_three_outside_down", <<>>, <<f>>, is_three_outside_down(candles, f))
Call_is_bullish_stick_sandwich ==
    /\ called = "none"
    /\ \E a \in ArgSet("is_bullish_stick_sandwich", 1) :
          Returns("is_bullish_stick_sandwich", <<a>>, is_bullish_stick_sandwich(candles, a))
Call_is_bearish_stick_sandwich ==
    /\ called = "none"
    /\ \E a \in ArgSet("is_bearish_stick_sandwich", 1) :
          Returns("is_bearish_stick_sandwich", <<a>>, is_bearish_stick_sandwich(candles, a))
Call_is_bullish_counterattack ==
    /\ called = "none"
    /\ \E a \in ArgSet("is_bullish_counterattack", 1), b \in ArgSet("is_bullish_counterattack", 2) :
          Returns("is_bullish_counterattack", <<a, b>>, is_bullish_counterattack(candles, a, b))
Call_is_bearish_counterattack ==
    /\ called = "none"
    /\ \E a \in ArgSet("is_bearish_counterattack", 1), b \in ArgSet("is_bearish_counterattack", 2) :
          Returns("is_bearish_counterattack", <<a, b>>, is_bearish_counterattack(candles, a, b))
Call_is_three_river_bottom ==
    /\ called = "none"
    /\ \E a \in ArgSet("is_three_river_bottom", 1) :
          Returns("is_three_river_bottom", <<a>>, is_three_river_bottom(candles, a))
Call_is_three_mountain_top ==
    /\ called = "none"
    /\ \E a \in ArgSet("is_three_mountain_top", 1) :
          Returns("is_three_mountain_top", <<a>>, is_three_mountain_top(candles, a))
Call_is_upside_gap_three_methods ==
    /\ called = "none"
    /\ \E a \in ArgSet("is_upside_gap_three_methods", 1) :
          Returns("is_upside_gap_three_methods", <<a>>, is_upside_gap_three_methods(candles, a))
Call_is_downside_gap_three_methods ==
    /\ called = "none"
    /\ \E a \in ArgSet("is_downside_gap_three_methods", 1) :
          Returns("is_downside_gap_three_methods", <<a>>, is_downside_gap_three_methods(candles, a))
Call_is_bullish_breakaway ==
    /\ called = "none"
    /\ \E a \in ArgSet("is_bullish_breakaway", 1) :
          Returns("is_bullish_breakaway", <<a>>, is_bullish_breakaway(candles, a))
Call_is_bearish_breakaway ==
    /\ called = "none"
    /\ \E a \in ArgSet("is_bearish_breakaway", 1) :
          Returns("is_bearish_breakaway", <<a>>, is_bearish_breakaway(candles, a))
Call_is_concealing_baby_swalllow ==
    /\ called = "none"
    /\ \E a \in ArgSet("is_concealing_baby_swalllow", 1) :
          Returns("is_concealing_baby_swalllow", <<a>>, is_concealing_baby_swalllow(candles, a))
Call_is_ladder_bottom ==
    /\ called = "none"
    /\ \E a \in ArgSet("is_ladder_bottom", 1), b \in ArgSet("is_ladder_bottom", 2) :
          Returns("is_ladder_bottom", <<a, b>>, is_ladder_bottom(candles, a, b))
Call_is_advance_block ==
    /\ called = "none"
    /\ \E a \in ArgSet("is_advance_block", 1) :
          Returns("is_advance_block", <<a>>, is_advance_block(candles, a))
Call_is_deliberation ==
    /\ called = "none"
    /\ \E a \in ArgSet("is_deliberation", 1) :
          Returns("is_deliberation", <<a>>, is_deliberation(candles, a))

-----------------------------------------------------------------------------
(* The caller's price table and the windows built from it *)

\* the bars of a price table, oldest first
Candles(df) == [i \in 1..Len(df) |-> CandleStick(df, i)]

Cell(k) == [n |-> k, d |-> 1]

\* a table row of decimal prices given in hundredths
Row(o, h, l, c) ==
    [Open  |-> [n |-> o, d |-> 100], High  |-> [n |-> h, d |-> 100],
     Low   |-> [n |-> l, d |-> 100], Close |-> [n |-> c, d |-> 100]]

\* every row of whole prices 0..m, well-ordered or not: the constructor
\* checks nothing
GridRows(m) ==
    {[Open |-> Cell(o), High |-> Cell(h), Low |-> Cell(l), Close |-> Cell(c)] :
        o \in 0..m, h \in 0..m, l \in 0..m, c \in 0..m}

\* Bar(open=10, high=10.1, low=8.5, close=10.05)
HammerRow == Row(1000, 1010, 850, 1005)
\* Bar(open=10, high=10, low=10, close=10)
FlatRow == Row(1000, 1000, 1000, 1000)

BarTables == {<<r>> : r \in GridRows(MaxPrice) \cup {HammerRow, FlatRow}}

NoCall ==
    /\ called = "none"
    /\ args = <<>>
    /\ flags = <<>>
    /\ result = "none"

\* the caller is done with the outcome and is idle again, the window unchanged
Forget ==
    /\ called /= "none"
    /\ called' = "none"
    /\ args' = <<>>
    /\ flags' = <<>>
    /\ result' = "none"
    /\ UNCHANGED candles

InitBar ==
    /\ \E df \in BarTables : candles = Candles(df)
    /\ NoCall

\* the numeric properties of a bar
NextFeature ==
    \/ Get_top_wick
    \/ Get_bottom_wick
    \/ Get_body_length
    \/ Get_body_average
    \/ Get_length
    \/ Get_body_ratio
    \/ Get_body_low
    \/ Get_body_high
    \/ Forget

SpecFeature == InitBar /\ [][NextFeature]_vars

\* the whole prices a float of Precision significand bits holds exactly
RoundedPrices ==
    {k \in 0..(Pow2(Precision) + RoundedExcess) : RoundNearestEven(Cell(k)) = Cell(k)}

\* every row of such prices, well-ordered or not
RoundedRows ==
    {[Open |-> Cell(o), High |-> Cell(h), Low |-> Cell(l), Close |-> Cell(c)] :
        o \in RoundedPrices, h \in RoundedPrices,
        l \in RoundedPrices, c \in RoundedPrices}

InitRounded ==
    /\ \E r \in RoundedRows : candles = Candles(<<r>>)
    /\ NoCall

\* the length properties of a bar, in rounded floats, and the body's bounds
NextRounded ==
    \/ Get_top_wick_rounded
    \/ Get_bottom_wick_rounded
    \/ Get_body_length_rounded
    \/ Get_length_rounded
    \/ Get_body_low
    \/ Get_body_high
    \/ Forget

SpecRounded == InitRounded /\ [][NextRounded]_vars

\* the boolean property and the single-candle predicates
NextBar ==
    \/ Get_is_bullish
    \/ Call_is_thick_enough
    \/ Call_is_thick_bearish
    \/ Call_is_thick_bullish
    \/ Call_is_thin_enough
    \/ Call_is_thin_bearish
    \/ Call_is_thin_bullish
    \/ Call_is_doji
    \/ Call_is_dragonfly
    \/ Call_is_gravestone
    \/ Call_is_long_legged
    \/ Call_is_hammer
    \/ Call_is_hanging_man
    \/ Call_is_inverted_hammer
    \/ Call_is_shooting_star
    \/ Call_is_spinning_top
    \/ Call_is_marubozu
    \/ Call_is_bullish_belt_hold
    \/ Call_is_bearish_belt_hold
    \/ Forget

SpecBar == InitBar /\ [][NextBar]_vars

-----------------------------------------------------------------------------
(* Windows of two bars: the engulfing patterns *)

\* the OHLC ordering low <= min(open, close) <= max(open, close) <= high
Ordered(c) ==
    /\ Le(c.low, Min(c.open, c.close))
    /\ Le(Max(c.open, c.close), c.high)

OrderedRows(m) == {r \in GridRows(m) : Ordered(CandleStick(<<r>>, 1))}

\* some rows that break the ordering
IllOrderedRows == GridRows(1) \ OrderedRows(1)

\* prev = Bar(open=10, high=10.1, low=9.4, close=9.5),
\* curr = Bar(open=9.4, high=10.6, low=9.3, close=10.5)
EngulfingPrevRow == Row(1000, 1010, 940, 950)
EngulfingCurrRow == Row(940, 1060, 930, 1050)

PairRows == OrderedRows(PairPrice) \cup IllOrderedRows

\* an older bar in front of some of the pairs
LeadRow == Row(100, 300, 100, 300)

PairTables ==
    {<<p, c>> : p \in PairRows, c \in PairRows}
        \cup {<<LeadRow, p, c>> : p \in OrderedRows(1), c \in OrderedRows(PairPrice)}
        \cup {<<EngulfingPrevRow, EngulfingCurrRow>>}
        \cup {<<p>> : p \in OrderedRows(1)}
        \cup {<<>>}

InitPair ==
    /\ \E df \in PairTables : candles = Candles(df)
    /\ NoCall

NextPair ==
    \/ Call_is_bullish_engulfing
    \/ Call_is_bearish_engulfing
    \/ Forget

SpecPair == InitPair /\ [][NextPair]_vars

\* the same windows under the two-bar reversal patterns
NextPairReversal ==
    \/ Call_is_piercing_line
    \/ Call_is_dark_cloud_cover
    \/ Call_is_bullish_counterattack
    \/ Call_is_bearish_counterattack
    \/ Forget

SpecPairReversal == InitPair /\ [][NextPairReversal]_vars

-----------------------------------------------------------------------------
(* Windows of every length 0..MaxWindow: the multi-candle patterns *)

\* a thick bullish bar, a thick bearish bar
BullRow == Row(100, 300, 100, 300)
BearRow == Row(300, 300, 100, 100)

FewRows == {BullRow, BearRow}

RECURSIVE TablesOfLen(_)
TablesOfLen(k) ==
    IF k = 0 THEN {<<>>}
    ELSE {Append(t, r) : t \in TablesOfLen(k - 1), r \in FewRows}

WindowTables == UNION {TablesOfLen(k) : k \in 0..MaxWindow}

Init ==
    /\ \E df \in WindowTables : candles = Candles(df)
    /\ NoCall

Next ==
    \/ Call_is_bullish_engulfing
    \/ Call_is_bearish_engulfing
    \/ Call_is_piercing_line
    \/ Call_is_dark_cloud_cover
    \/ Call_is_bullish_harami
    \/ Call_is_bearish_harami
    \/ Call_is_tweezer_tops
    \/ Call_is_tweezer_bottoms
    \/ Call_is_morning_star
    \/ Call_is_evening_star
    \/ Call_is_three_white_soldiers
    \/ Call_is_three_black_crows
    \/ Call_is_morning_doji_star
    \/ Call_is_evening_doji_star
    \/ Call_is_bullish_tasuki_gap
    \/ Call_is_bearish_tasuki_gap
    \/ Call_is_bullish_kicking
    \/ Call_is_bearish_kicking
    \/ Call_is_bullish_abandoned_baby
    \/ Call_is_bearish_abandoned_baby
    \/ Call_is_three_inside_up
    \/ Call_is_three_inside_down
    \/ Call_is_three_outside_up
    \/ Call_is_three_outside_down
    \/ Call_is_bullish_stick_sandwich
    \/ Call_is_bearish_stick_sandwich
    \/ Call_is_bullish_counterattack
    \/ Call_is_bearish_counterattack
    \/ Call_is_three_river_bottom
    \/ Call_is_three_mountain_top
    \/ Call_is_upside_gap_three_methods
    \/ Call_is_downside_gap_three_methods
    \/ Call_is_bullish_breakaway
    \/ Call_is_bearish_breakaway
    \/ Call_is_concealing_baby_swalllow
    \/ Call_is_ladder_bottom
    \/ Call_is_advance_block
    \/ Call_is_deliberation
    \/ Forget

Spec == Init /\ [][Next]_vars

-----------------------------------------------------------------------------
(* Windows of three bars: gaps, soldiers, outside patterns *)

\* a row moved k price units up
ShiftRow(r, k) ==
    [Open  |-> Add(r.Open, Cell(k)), High  |-> Add(r.High, Cell(k)),
     Low   |-> Add(r.Low, Cell(k)),  Close |-> Add(r.Close, Cell(k))]

\* the six well-ordered shapes of unit height or less, placed so that the
\* bars of a window overlap, touch or leave a gap between them
ShiftedTables ==
    {<<ShiftRow(p, i), ShiftRow(c, MaxShift), ShiftRow(n, j)>> :
        p \in OrderedRows(1), c \in OrderedRows(1), n \in OrderedRows(1),
        i \in 0..(2 * MaxShift), j \in 0..(2 * MaxShift)}

\* the wicks a soldier of body 0.5 may carry with body_ratio >= 0.4:
\* none, 0.35 above and 0.4 below, or 0.75 above
SoldierWicks == {<<0, 0>>, <<35, 40>>, <<75, 0>>}

SoldierRow(o, c, wk) == Row(o, c + wk[1], o - wk[2], c)

\* opens 10 / 10.3 / 10.6, closes 10.5 / 10.8 / 11.1
SoldierTables ==
    {<<SoldierRow(1000, 1050, u), SoldierRow(1030, 1080, v),
       SoldierRow(1060, 1110, x)>> :
        u \in SoldierWicks, v \in SoldierWicks, x \in SoldierWicks}

\* a short bar followed by two long ones, the second opening above the
\* first one's close:
\* Bar(10, 10.1, 10, 10.1), Bar(10.15, 13.15, 10.15, 13.15),
\* Bar(11.7, 13.5, 11.7, 13.5)
ShortFirstTable ==
    <<Row(1000, 1010, 1000, 1010), Row(1015, 1315, 1015, 1315),
      Row(1170, 1350, 1170, 1350)>>

\* two short bars followed by a long one that opens above the second one's
\* close:
\* Bar(10, 11, 10, 11), Bar(10.9, 11.1, 10.9, 11.1),
\* Bar(11.2, 21.2, 11.2, 21.2)
LongLastTable ==
    <<Row(1000, 1100, 1000, 1100), Row(1090, 1110, 1090, 1110),
      Row(1120, 2120, 1120, 2120)>>

\* two thick bars with a gap between them and a third bar, bullish or
\* bearish, that closes inside the gap:
\* Bar(10, 11, 10, 11), Bar(12, 13, 12, 13), then Bar(11.2, 11.6, 11.2, 11.5)
\* or Bar(11.5, 11.6, 11.2, 11.2) (upward), and the mirror images
\* Bar(13, 13, 12, 12), Bar(11, 11, 10, 10), then the same third bars (downward)
TasukiTables ==
    {<<p[1], p[2], n>> :
        p \in {<<Row(1000, 1100, 1000, 1100), Row(1200, 1300, 1200, 1300)>>,
               <<Row(1300, 1300, 1200, 1200), Row(1100, 1100, 1000, 1000)>>},
        n \in {Row(1120, 1160, 1120, 1150), Row(1150, 1160, 1120, 1120)}}

TripleTables ==
    ShiftedTables \cup SoldierTables \cup {ShortFirstTable, LongLastTable}
        \cup TasukiTables

InitTriple ==
    /\ \E df \in TripleTables : candles = Candles(df)
    /\ NoCall

NextTriple ==
    \/ Call_is_three_white_soldiers
    \/ Call_is_three_black_crows
    \/ Call_is_bullish_tasuki_gap
    \/ Call_is_bearish_tasuki_gap
    \/ Call_is_bullish_abandoned_baby
    \/ Call_is_bearish_abandoned_baby
    \/ Call_is_three_outside_up
    \/ Call_is_three_outside_down
    \/ Forget

SpecTriple == InitTriple /\ [][NextTriple]_vars

-----------------------------------------------------------------------------
(* The properties *)

\* the bars a pattern needs, as its docstring states them ("list of at
\* least N CandleStick objects"); a single-candle pattern takes one bar
RequiredBars ==
    [is_doji |-> 1, is_dragonfly |-> 1, is_gravestone |-> 1,
     is_long_legged |-> 1, is_hammer |-> 1, is_hanging_man |-> 1,
     is_inverted_hammer |-> 1, is_shooting_star |-> 1, is_spinning_top |-> 1,
     is_marubozu |-> 1, is_bullish_belt_hold |-> 1, is_bearish_belt_hold |-> 1,
     is_bullish_engulfing |-> 2, is_bearish_engulfing |-> 2,
     is_piercing_line |-> 2, is_dark_cloud_cover |-> 2,
     is_bullish_harami |-> 2, is_bearish_harami |-> 2,
     is_tweezer_tops |-> 2, is_tweezer_bottoms |-> 2,
     is_bullish_kicking |-> 2, is_bearish_kicking |-> 2,
     is_bullish_counterattack |-> 2, is_bearish_counterattack |-> 2,
     is_morning_star |-> 3, is_evening_star |-> 3,
     is_three_white_soldiers |-> 3, is_three_black_crows |-> 3,
     is_morning_doji_star |-> 3, is_evening_doji_star |-> 3,
     is_bullish_tasuki_gap |-> 3, is_bearish_tasuki_gap |-> 3,
     is_bullish_abandoned_baby |-> 3, is_bearish_abandoned_baby |-> 3,
     is_three_inside_up |-> 3, is_three_inside_down |-> 3,
     is_three_outside_up |-> 3, is_three_outside_down |-> 3,
     is_bullish_stick_sandwich |-> 3, is_bearish_stick_sandwich |-> 3,
     is_three_river_bottom |-> 3, is_three_mountain_top |-> 3,
     is_upside_gap_three_methods |-> 3, is_downside_gap_three_methods |-> 3,
     is_advance_block |-> 3, is_deliberation |-> 3,
     is_concealing_baby_swalllow |-> 4,
     is_bullish_breakaway |-> 5, is_bearish_breakaway |-> 5,
     is_ladder_bottom |-> 5]

Catalog == DOMAIN RequiredBars
SingleBarPatterns == {p \in Catalog : RequiredBars[p] = 1}
MultiBarPatterns == {p \in Catalog : RequiredBars[p] >= 2}

AllOrdered(w) == \A i \in 1..Len(w) : Ordered(w[i])

HammerBar == CandleStick(<<HammerRow>>, 1)
FlatBar == CandleStick(<<FlatRow>>, 1)
EngulfingPair == Candles(<<EngulfingPrevRow, EngulfingCurrRow>>)

\* C1: a multi-bar predicate called on a window that holds fewer bars than the
\* pattern requires (the empty window included) returns false and raises
\* nothing, whatever the thresholds.
C1_ShortWindowIsFalse ==
    (called \in MultiBarPatterns /\ Len(candles) < RequiredBars[called])
        => result = "False"

\* a five-bar pattern was called on four bars and returned false
C1_Witness ==
    /\ called = "is_bullish_breakaway"
    /\ Len(candles) = 4
    /\ result = "False"

\* C2: every catalog predicate called with its default thresholds on a window
\* of at least the required number of bars, all of them well-ordered, ends
\* with a boolean and raises nothing.
C2_EveryPredicateReturnsBoolean ==
    (/\ called \in Catalog
     /\ Len(candles) >= RequiredBars[called]
     /\ AllOrdered(candles)
     /\ args = DefaultArgs[called]
     /\ flags = DefaultFlags(called))
        => result \in {"True", "False"}

\* C3: for a bar with low <= min(open, close) <= max(open, close) <= high,
\* top_wick, bottom_wick, body_length and length are non-negative.
C3_FeaturesNonNegative ==
    (/\ called \in {"top_wick", "bottom_wick", "body_length", "length"}
     /\ Ordered(Last(candles)))
        => IsNum(result) /\ Ge(result, Zero)

\* a well-ordered bar with a top wick had its top_wick read
C3_Witness ==
    /\ called = "top_wick"
    /\ Ordered(Last(candles))
    /\ Gt(result, Zero)

\* C4: body_ratio is body_length / length when length > 0 and the sentinel 0
\* when length is 0, never an error; for a well-ordered bar it lies in 0..1.
C4_BodyRatio ==
    called = "body_ratio" =>
        LET c == Last(candles)
        IN  /\ IsNum(result)
            /\ Gt(length(c), Zero) => Mul(result, length(c)) = body_length(c)
            /\ length(c) = Zero => result = Zero
            /\ Ordered(c) => Ge(result, Zero) /\ Le(result, One)

\* body_ratio was read on a zero-length bar and gave the sentinel
C4_Witness ==
    /\ called = "body_ratio"
    /\ length(Last(candles)) = Zero
    /\ result = Zero

\* C5 as first stated: on a bar of length 0, with max_ratio >= 0, each of
\* is_thin_enough, is_thin_bearish and is_thin_bullish is true; read here
\* on the well-ordered bars alone, where it already fails.
C5_ThinAlwaysTrueOnZeroLength ==
    (/\ called \in {"is_thin_enough", "is_thin_bearish", "is_thin_bullish"}
     /\ Ordered(Last(candles))
     /\ length(Last(candles)) = Zero
     /\ Ge(args[1], Zero))
        => result = "True"

\* C5, amended: on a bar of length 0, with max_ratio >= 0, is_thin_enough is
\* true, is_thin_bearish is true exactly when the bar is not bullish and
\* is_thin_bullish exactly when it is bullish; on a well-ordered bar of
\* length 0 (open = close) is_thin_bearish is true and is_thin_bullish false.
C5_ThinOnZeroLength ==
    (/\ called \in {"is_thin_enough", "is_thin_bearish", "is_thin_bullish"}
     /\ length(Last(candles)) = Zero
     /\ Ge(args[1], Zero))
        => LET c == Last(candles)
               bullish == Gt(c.close, c.open)
           IN  /\ called = "is_thin_enough" => result = "True"
               /\ called = "is_thin_bearish" => result = Ret(~bullish)
               /\ called = "is_thin_bullish" => result = Ret(bullish)
               /\ (Ordered(c) /\ called = "is_thin_bearish") => result = "True"
               /\ (Ordered(c) /\ called = "is_thin_bullish") => result = "False"

\* is_thin_bullish was called on Bar(10, 10, 10, 10) and returned false
C5_Witness ==
    /\ called = "is_thin_bullish"
    /\ Last(candles) = FlatBar
    /\ Ge(args[1], Zero)
    /\ result = "False"

\* C6: on a bar of length 0 every single-bar pattern predicate returns false,
\* whatever its thresholds.
C6_ZeroLengthNeverMatches ==
    (called \in SingleBarPatterns /\ length(Last(candles)) = Zero)
        => result = "False"

\* is_doji was called on Bar(10, 10, 10, 10) and returned false
C6_Witness ==
    /\ called = "is_doji"
    /\ Last(candles) = FlatBar
    /\ result = "False"

\* C7: is_hammer returns true if and only if length > 0 and
\* body_ratio <= max_body_ratio and top_wick <= length * top_wick_ratio and
\* bottom_wick >= length * bottom_wick_ratio; it is true under the defaults
\* for Bar(open=10, high=10.1, low=8.5, close=10.05).
C7_HammerIff ==
    called = "is_hammer" =>
        LET c == Last(candles)
        IN  /\ result = "True" <=>
                  /\ Gt(length(c), Zero)
                  /\ Le(body_ratio(c), args[1])
                  /\ Le(top_wick(c), Mul(length(c), args[2]))
                  /\ Ge(bottom_wick(c), Mul(length(c), args[3]))
            /\ (c = HammerBar /\ args = DefaultArgs.is_hammer) => result = "True"

\* C8 as first stated: for Bar(open=10, high=10.1, low=8.5, close=10.05),
\* length = 1.6, body_length = 0.05, body_ratio = 0.03125, top_wick = 0.05
\* and bottom_wick = 1.45.
C8_HammerBarFeatures ==
    (candles = <<HammerBar>>) =>
        /\ called = "length" => result = R(160, 100)
        /\ called = "body_length" => result = R(5, 100)
        /\ called = "body_ratio" => result = R(3125, 100000)
        /\ called = "top_wick" => result = R(5, 100)
        /\ called = "bottom_wick" => result = R(145, 100)

\* C8, amended: for Bar(open=10, high=10.1, low=8.5, close=10.05),
\* length = 1.6, body_length = 0.05, body_ratio = 0.03125, top_wick = 0.05
\* and bottom_wick = 1.5.
C8_HammerBarFeaturesAmended ==
    (candles = <<HammerBar>>) =>
        /\ called = "length" => result = R(160, 100)
        /\ called = "body_length" => result = R(5, 100)
        /\ called = "body_ratio" => result = R(3125, 100000)
        /\ called = "top_wick" => result = R(5, 100)
        /\ called = "bottom_wick" => result = R(150, 100)

\* bottom_wick was read on the hammer bar and gave 1.5
C8_Witness ==
    /\ candles = <<HammerBar>>
    /\ called = "bottom_wick"
    /\ result = R(150, 100)

\* C9: is_bullish_engulfing returns true if and only if the last two bars
\* prev, curr both have nonzero length, prev is not bullish with
\* body_ratio >= min_body_ratio, curr is bullish with
\* body_ratio >= min_body_ratio, and curr.body_low < prev.body_low and
\* curr.body_high > prev.body_high; it is true on the pair of scenario 2
\* with the default min_body_ratio.
C9_BullishEngulfingIff ==
    called = "is_bullish_engulfing" =>
        /\ result = "True" <=>
              /\ Len(candles) >= 2
              /\ LET prev == candles[Len(candles) - 1]
                     curr == candles[Len(candles)]
                 IN  /\ length(prev) /= Zero
                     /\ length(curr) /= Zero
                     /\ ~Gt(prev.close, prev.open)
                     /\ Ge(body_ratio(prev), args[1])
                     /\ Gt(curr.close, curr.open)
                     /\ Ge(body_ratio(curr), args[1])
                     /\ Lt(body_low(curr), body_low(prev))
                     /\ Gt(body_high(curr), body_high(prev))
        /\ (candles = EngulfingPair /\ args = DefaultArgs.is_bullish_engulfing)
              => result = "True"

\* is_bullish_engulfing matched the pair of scenario 2 under the default
C9_Witness ==
    /\ called = "is_bullish_engulfing"
    /\ candles = EngulfingPair
    /\ args = DefaultArgs.is_bullish_engulfing
    /\ result = "True"

\* C10: on no window are is_bullish_engulfing and is_bearish_engulfing both
\* true, whatever the two min_body_ratio values: when one of them has
\* returned true, the other returns no match for every min_body_ratio.
C10_EngulfingsExclusive ==
    /\ (called = "is_bullish_engulfing" /\ result = "True") =>
           \A r \in ArgSet("is_bearish_engulfing", 1) :
               is_bearish_engulfing(candles, r) = "False"
    /\ (called = "is_bearish_engulfing" /\ result = "True") =>
           \A r \in ArgSet("is_bullish_engulfing", 1) :
               is_bullish_engulfing(candles, r) = "False"

\* is_bearish_engulfing matched a window, on which is_bullish_engulfing is
\* false
C10_Witness ==
    /\ called = "is_bearish_engulfing"
    /\ result = "True"
    /\ is_bullish_engulfing(candles, args[1]) = "False"

\* C11: whenever is_three_white_soldiers returns true on prev, curr, nxt, each
\* later bar opens inside the prior bar's body: prev.body_low <= curr.open <=
\* prev.body_high and curr.body_low <= nxt.open <= curr.body_high.
C11_SoldiersOpenInsidePriorBody ==
    (called = "is_three_white_soldiers" /\ result = "True") =>
        LET prev == At(candles, 3)
            curr == At(candles, 2)
            nxt == At(candles, 1)
        IN  /\ Le(body_low(prev), curr.open) /\ Le(curr.open, body_high(prev))
            /\ Le(body_low(curr), nxt.open) /\ Le(nxt.open, body_high(curr))

\* the three most recent bars are the soldiers the specification describes:
\* nonzero length, each bullish with body_ratio >= min_body_ratio, each open
\* within the prior bar's body, closes strictly increasing
SoldiersAsSpecified(w, min_body_ratio) ==
    /\ Len(w) >= 3
    /\ LET prev == At(w, 3)
           curr == At(w, 2)
           nxt == At(w, 1)
       IN  /\ \A c \in {prev, curr, nxt} :
                 /\ length(c) /= Zero
                 /\ is_bullish(c)
                 /\ Ge(body_ratio(c), min_body_ratio)
           /\ Le(body_low(prev), curr.open) /\ Le(curr.open, body_high(prev))
           /\ Le(body_low(curr), nxt.open) /\ Le(nxt.open, body_high(curr))
           /\ Gt(curr.close, prev.close)
           /\ Gt(nxt.close, curr.close)

\* C12: is_three_white_soldiers returns true for every window whose last
\* three bars have nonzero length, are each bullish with body_ratio >=
\* min_body_ratio, each open within the prior bar's body, and have strictly
\* increasing closes; in particular for opens 10/10.3/10.6 and closes
\* 10.5/10.8/11.1 under the default 0.4, whatever the highs and lows.
C12_SoldiersAsSpecifiedMatch ==
    (/\ called = "is_three_white_soldiers"
     /\ AllOrdered(candles)
     /\ SoldiersAsSpecified(candles, args[1]))
        => result = "True"

\* the direction and Doji conditions of the abandoned baby patterns, the
\* gaps left aside
AbandonedBabyShape(name, w, max_body_ratio) ==
    LET prev == At(w, 3)
        curr == At(w, 2)
        nxt == At(w, 1)
    IN  /\ length(prev) /= Zero /\ length(curr) /= Zero /\ length(nxt) /= Zero
        /\ is_doji(curr, max_body_ratio)
        /\ IF name = "is_bullish_abandoned_baby"
           THEN ~is_bullish(prev) /\ is_bullish(nxt)
           ELSE is_bullish(prev) /\ ~is_bullish(nxt)

\* both gaps around the Doji bar, as the pattern reads them
AbandonedBabyGaps(name, w) ==
    LET prev == At(w, 3)
        curr == At(w, 2)
        nxt == At(w, 1)
    IN  IF name = "is_bullish_abandoned_baby"
        THEN Gt(curr.low, prev.high) /\ Gt(nxt.low, curr.high)
        ELSE Lt(curr.high, prev.low) /\ Lt(nxt.high, curr.low)

\* C13: the abandoned baby patterns honor require_gap: with require_gap=False
\* the result is the conjunction of the direction and Doji conditions alone,
\* with require_gap=True it is that conjunction and both gaps around the Doji;
\* so a match with require_gap=True is a match with require_gap=False too.
C13_AbandonedBabyHonorsRequireGap ==
    (/\ called \in {"is_bullish_abandoned_baby", "is_bearish_abandoned_baby"}
     /\ Len(candles) >= 3)
        => LET shape == AbandonedBabyShape(called, candles, args[1])
               gaps == AbandonedBabyGaps(called, candles)
               other(f) ==
                   IF called = "is_bullish_abandoned_baby"
                   THEN is_bullish_abandoned_baby(candles, args[1], f)
                   ELSE is_bearish_abandoned_baby(candles, args[1], f)
           IN  /\ flags = <<FALSE>> => result = Ret(shape)
               /\ flags = <<TRUE>> => result = Ret(shape /\ gaps)
               /\ (flags = <<TRUE>> /\ result = "True") => other(FALSE) = "True"

\* a window matched without the gap requirement only: the bullish pattern,
\* called with require_gap=False, returned true where it returns false with
\* require_gap=True
C13_Witness ==
    /\ called = "is_bullish_abandoned_baby"
    /\ flags = <<FALSE>>
    /\ result = "True"
    /\ ~AbandonedBabyGaps(called, candles)
    /\ is_bullish_abandoned_baby(candles, args[1], TRUE) = "False"

\* C14: is_bullish_counterattack and is_bearish_counterattack return false
\* whenever the most recent bar has zero length, for every previous bar and
\* every threshold; read here on the windows of well-ordered bars.
C14_CounterattackFalseOnZeroLength ==
    (/\ called \in {"is_bullish_counterattack", "is_bearish_counterattack"}
     /\ Len(candles) >= 2
     /\ AllOrdered(candles)
     /\ length(Last(candles)) = Zero)
        => result = "False"

\* C15: for every bar and every (max_body_ratio, top_wick_ratio,
\* bottom_wick_ratio), is_hanging_man returns what is_hammer returns and
\* is_shooting_star what is_inverted_hammer returns, zero-length bars
\* included; and each pair has the same defaults.
C15_AliasesAgree ==
    /\ called = "is_hanging_man" =>
          result = Ret(is_hammer(Last(candles), args[1], args[2], args[3]))
    /\ called = "is_hammer" =>
          result = Ret(is_hanging_man(Last(candles), args[1], args[2], args[3]))
    /\ called = "is_shooting_star" =>
          result = Ret(is_inverted_hammer(Last(candles), args[1], args[2], args[3]))
    /\ called = "is_inverted_hammer" =>
          result = Ret(is_shooting_star(Last(candles), args[1], args[2], args[3]))
    /\ DefaultArgs.is_hanging_man = DefaultArgs.is_hammer
    /\ DefaultArgs.is_shooting_star = DefaultArgs.is_inverted_hammer

\* is_hanging_man was called on Bar(10, 10.1, 8.5, 10.05) with the defaults
\* and returned true, as is_hammer does
C15_Witness ==
    /\ called = "is_hanging_man"
    /\ Last(candles) = HammerBar
    /\ args = DefaultArgs.is_hanging_man
    /\ result = "True"
    /\ is_hammer(HammerBar, args[1], args[2], args[3])

\* the value a multi-candle predicate returns on window w for the thresholds
\* a and the bool parameter f it was called with
Evaluate(name, w, a, f) ==
    CASE name = "is_bullish_engulfing" ->
            is_bullish_engulfing(w, a[1])
      [] name = "is_bearish_engulfing" ->
            is_bearish_engulfing(w, a[1])
      [] name = "is_piercing_line" ->
            is_piercing_line(w, a[1], a[2])
      [] name = "is_dark_cloud_cover" ->
            is_dark_cloud_cover(w, a[1], a[2])
      [] name = "is_bullish_harami" ->
            is_bullish_harami(w, a[1], a[2])
      [] name = "is_bearish_harami" ->
            is_bearish_harami(w, a[1], a[2])
      [] name = "is_tweezer_tops" ->
            is_tweezer_tops(w, a[1], a[2])
      [] name = "is_tweezer_bottoms" ->
            is_tweezer_bottoms(w, a[1], a[2])
      [] name = "is_morning_star" ->
            is_morning_star(w, a[1], a[2])
      [] name = "is_evening_star" ->
            is_evening_star(w, a[1], a[2])
      [] name = "is_three_white_soldiers" ->
            is_three_white_soldiers(w, a[1])
      [] name = "is_three_black_crows" ->
            is_three_black_crows(w, a[1])
      [] name = "is_morning_doji_star" ->
            is_morning_doji_star(w, a[1], a[2])
      [] name = "is_evening_doji_star" ->
            is_evening_doji_star(w, a[1], a[2])
      [] name = "is_bullish_tasuki_gap" ->
            is_bullish_tasuki_gap(w, a[1])
      [] name = "is_bearish_tasuki_gap" ->
            is_bearish_tasuki_gap(w, a[1])
      [] name = "is_bullish_kicking" ->
            is_bullish_kicking(w, a[1])
      [] name = "is_bearish_kicking" ->
            is_bearish_kicking(w, a[1])
      [] name = "is_bullish_abandoned_baby" ->
            is_bullish_abandoned_baby(w, a[1], f[1])
      [] name = "is_bearish_abandoned_baby" ->
            is_bearish_abandoned_baby(w, a[1], f[1])
      [] name = "is_three_inside_up" ->
            is_three_inside_up(w, f[1])
      [] name = "is_three_inside_down" ->
            is_three_inside_down(w, f[1])
      [] name = "is_three_outside_up" ->
            is_three_outside_up(w, f[1])
      [] name = "is_three_outside_down" ->
            is_three_outside_down(w, f[1])
      [] name = "is_bullish_stick_sandwich" ->
            is_bullish_stick_sandwich(w, a[1])
      [] name = "is_bearish_stick_sandwich" ->
            is_bearish_stick_sandwich(w, a[1])
      [] name = "is_bullish_counterattack" ->
            is_bullish_counterattack(w, a[1], a[2])
      [] name = "is_bearish_counterattack" ->
            is_bearish_counterattack(w, a[1], a[2])
      [] name = "is_three_river_bottom" ->
            is_three_river_bottom(w, a[1])
      [] name = "is_three_mountain_top" ->
            is_three_mountain_top(w, a[1])
      [] name = "is_upside_gap_three_methods" ->
            is_upside_gap_three_methods(w, a[1])
      [] name = "is_downside_gap_three_methods" ->
            is_downside_gap_three_methods(w, a[1])
      [] name = "is_bullish_breakaway" ->
            is_bullish_breakaway(w, a[1])
      [] name = "is_bearish_breakaway" ->
            is_bearish_breakaway(w, a[1])
      [] name = "is_concealing_baby_swalllow" ->
            is_concealing_baby_swalllow(w, a[1])
      [] name = "is_ladder_bottom" ->
            is_ladder_bottom(w, a[1], a[2])
      [] name = "is_advance_block" ->
            is_advance_block(w, a[1])
      [] name = "is_deliberation" ->
            is_deliberation(w, a[1])

C17_IllOrderedBarsRejected ==
    called \in SingleBarPatterns =>
        LET c == Last(candles)
        IN  /\ Ordered(c)
            /\ Ge(top_wick(c), Zero)
            /\ Ge(bottom_wick(c), Zero)
            /\ Ge(length(c), Zero)

\* full-range engulfing: the high/low range of curr covers that of prev
RangeEngulfs(prev, curr) ==
    /\ Ge(curr.high, prev.high)
    /\ Le(curr.low, prev.low)

\* the three outside patterns with the engulfing test chosen by the flag
ThreeOutsideAsSpecified(name, w, strict_engulfing) ==
    LET prev == At(w, 3)
        curr == At(w, 2)
        nxt == At(w, 1)
        engulfing ==
            IF ~strict_engulfing THEN RangeEngulfs(prev, curr)
            ELSE IF name = "is_three_outside_up" THEN body_engulfs(prev, curr)
            ELSE body_engulfed(prev, curr)
    IN  /\ length(prev) /= Zero /\ length(curr) /= Zero /\ length(nxt) /= Zero
        /\ engulfing
        /\ IF name = "is_three_outside_up"
           THEN /\ ~is_bullish(prev) /\ is_bullish(curr) /\ is_bullish(nxt)
                /\ Gt(nxt.close, curr.close)
           ELSE /\ is_bullish(prev) /\ ~is_bullish(curr) /\ ~is_bullish(nxt)
                /\ Lt(nxt.close, curr.close)

\* C18: is_three_outside_up and is_three_outside_down select the engulfing
\* test by strict_engulfing: body-based engulfing when it is True, full-range
\* engulfing when it is False, so a window whose second bar engulfs the first
\* by range but not by body matches with strict_engulfing=False.
C18_ThreeOutsideHonorsStrictEngulfing ==
    (/\ called \in {"is_three_outside_up", "is_three_outside_down"}
     /\ Len(candles) >= 3
     /\ AllOrdered(candles))
        => result = Ret(ThreeOutsideAsSpecified(called, candles, flags[1]))

\* C19: whenever is_bullish_tasuki_gap returns true on prev, curr, nxt, the
\* first two bars are thick bullish with a gap between them (curr.low >
\* prev.high) and the third is a bearish bar (not bullish) that closes inside
\* the gap (prev.high < nxt.close < curr.low); whenever is_bearish_tasuki_gap
\* returns true, the first two are thick bearish with curr.high < prev.low and
\* the third is a bullish bar closing inside the gap.
C19_TasukiThirdBarOpposes ==
    LET prev == At(candles, 3)
        curr == At(candles, 2)
        nxt == At(candles, 1)
    IN  /\ (called = "is_bullish_tasuki_gap" /\ result = "True") =>
              /\ is_thick_bullish(prev, args[1])
              /\ is_thick_bullish(curr, args[1])
              /\ Gt(curr.low, prev.high)
              /\ ~is_bullish(nxt)
              /\ Lt(prev.high, nxt.close) /\ Lt(nxt.close, curr.low)
        /\ (called = "is_bearish_tasuki_gap" /\ result = "True") =>
              /\ is_thick_bearish(prev, args[1])
              /\ is_thick_bearish(curr, args[1])
              /\ Lt(curr.high, prev.low)
              /\ is_bullish(nxt)
              /\ Lt(curr.high, nxt.close) /\ Lt(nxt.close, prev.low)

\* C20: whenever is_piercing_line returns true on prev, curr with 0 <=
\* min_penetration <= 1, curr opens below prev's close and closes into the
\* prior bearish body: prev.close + min_penetration * (prev.open - prev.close)
\* <= curr.close <= prev.open; whenever is_dark_cloud_cover returns true, curr
\* opens above prev's close and closes into the prior bullish body:
\* prev.open <= curr.close <= prev.close - min_penetration * (prev.close -
\* prev.open).  Read here on the windows of well-ordered bars and under the
\* default thresholds (0.3, 0.5), where it already fails.
C20_PiercingClosesInsidePriorBody ==
    (/\ called \in {"is_piercing_line", "is_dark_cloud_cover"}
     /\ result = "True"
     /\ AllOrdered(candles)
     /\ args = DefaultArgs[called]
     /\ Ge(args[2], Zero) /\ Le(args[2], One))
        => LET prev == At(candles, 2)
               curr == At(candles, 1)
           IN  IF called = "is_piercing_line"
               THEN /\ Lt(curr.open, prev.close)
                    /\ Le(Add(prev.close, Mul(args[2], Sub(prev.open, prev.close))),
                          curr.close)
                    /\ Le(curr.close, prev.open)
               ELSE /\ Gt(curr.open, prev.close)
                    /\ Ge(Sub(prev.close, Mul(args[2], Sub(prev.close, prev.open))),
                          curr.close)
                    /\ Ge(curr.close, prev.open)

-----------------------------------------------------------------------------
(* Star windows: a first bar, a small middle bar, a last bar *)

\* body of the middle bar in hundredths; its length is 1, so these are the
\* body ratios 0, 0.05, 0.1 and 0.3
StarBodies == {0, 5, 10, 30}

\* opens of the middle bar: below, at and above the closes 10 and 11 of the
\* thick first bars
StarOpens == {980, 1000, 1100, 1120}

\* a middle bar of length 1 that opens at o and closes b higher (up) or lower
StarMiddleRow(o, b, up) ==
    IF up THEN Row(o, o + 60, o - 40, o + b) ELSE Row(o, o + 40, o - 60, o - b)

\* first bars: thick bearish 11 -> 10, thick bullish 10 -> 11, a bearish one of
\* body ratio 0.2, a flat one
StarFirstRows ==
    {Row(1100, 1100, 1000, 1000), Row(1000, 1100, 1000, 1100),
     Row(1060, 1100, 1000, 1040), FlatRow}

\* last bars: bullish closing above 10.5 and at 10.5, bearish closing below
\* 10.5 and at 10.5, a flat one
StarLastRows ==
    {Row(1000, 1100, 1000, 1100), Row(960, 1050, 960, 1050),
     Row(1100, 1100, 1000, 1000), Row(1140, 1140, 1050, 1050), FlatRow}

StarMiddleRows ==
    {StarMiddleRow(o, b, up) : o \in StarOpens, b \in StarBodies, up \in BOOLEAN}
        \cup {FlatRow}

StarTables ==
    {<<p, c, n>> : p \in StarFirstRows, c \in StarMiddleRows, n \in StarLastRows}
        \cup {<<LeadRow, p, StarMiddleRow(o, 5, TRUE), Row(1000, 1100, 1000, 1100)>> :
                  p \in StarFirstRows, o \in StarOpens}
        \cup {<<p, c>> : p \in StarFirstRows, c \in StarLastRows}
        \cup {<<p>> : p \in StarFirstRows}
        \cup {<<>>}

InitStar ==
    /\ \E df \in StarTables : candles = Candles(df)
    /\ NoCall

NextStar ==
    \/ Call_is_morning_star
    \/ Call_is_evening_star
    \/ Call_is_morning_doji_star
    \/ Call_is_evening_doji_star
    \/ Forget

SpecStar == InitStar /\ [][NextStar]_vars

\* the thresholds a star may be called with for its middle bar
MiddleRatios ==
    ArgSet("is_morning_star", 2) \cup ArgSet("is_morning_doji_star", 2)

\* C22: whenever is_morning_doji_star(window, min_body_ratio, d) is true and
\* d <= m, is_morning_star(window, min_body_ratio, m) is true as well, so that
\* under the defaults d = 0.05, m = 0.1 every Morning Doji Star is a Morning
\* Star; likewise from is_evening_doji_star to is_evening_star.
C22_DojiStarIsStar ==
    (/\ called \in {"is_morning_doji_star", "is_evening_doji_star"}
     /\ result = "True")
        => \A m \in MiddleRatios :
              Le(args[2], m) =>
                  IF called = "is_morning_doji_star"
                  THEN is_morning_star(candles, args[1], m) = "True"
                  ELSE is_evening_star(candles, args[1], m) = "True"

\* a Morning Doji Star matched under the defaults on a window whose middle
\* bar has a body, of ratio 0.05, and the window is a Morning Star under the
\* defaults of is_morning_star
C22_Witness ==
    /\ called = "is_morning_doji_star"
    /\ result = "True"
    /\ args = DefaultArgs["is_morning_doji_star"]
    /\ body_ratio(At(candles, 2)) = args[2]
    /\ is_morning_star(candles, DefaultArgs["is_morning_star"][1],
                       DefaultArgs["is_morning_star"][2]) = "True"

-----------------------------------------------------------------------------
(* Harami against Engulfing on the same window *)

\* long-wicked second bars whose body, 0.275 of their length, covers the body
\* of the first bar: Bar(9.4, 12, 8, 10.5) after Bar(10, 10.1, 9.4, 9.5), and
\* Bar(10.5, 12, 8, 9.4) after Bar(9.5, 10.1, 9.4, 10)
WideCoveringTables ==
    {<<EngulfingPrevRow, Row(940, 1200, 800, 1050)>>,
     <<Row(950, 1010, 940, 1000), Row(1050, 1200, 800, 940)>>}

InitInside ==
    /\ \E df \in PairTables \cup WideCoveringTables : candles = Candles(df)
    /\ NoCall

NextInside ==
    \/ Call_is_bullish_harami
    \/ Call_is_bearish_harami
    \/ Call_is_bullish_engulfing
    \/ Call_is_bearish_engulfing
    \/ Forget

SpecInside == InitInside /\ [][NextInside]_vars

\* C23: on no window and under no thresholds are is_bullish_harami and
\* is_bullish_engulfing both true, nor is_bearish_harami and
\* is_bearish_engulfing: when one of the four has matched, its counterpart of
\* the same direction is not true whatever thresholds it is called with.
C23_HaramiExcludesEngulfing ==
    result = "True" =>
        /\ called = "is_bullish_harami" =>
               \A r \in ArgSet("is_bullish_engulfing", 1) :
                   is_bullish_engulfing(candles, r) /= "True"
        /\ called = "is_bearish_harami" =>
               \A r \in ArgSet("is_bearish_engulfing", 1) :
                   is_bearish_engulfing(candles, r) /= "True"
        /\ called = "is_bullish_engulfing" =>
               \A a \in ArgSet("is_bullish_harami", 1),
                  b \in ArgSet("is_bullish_harami", 2) :
                   is_bullish_harami(candles, a, b) /= "True"
        /\ called = "is_bearish_engulfing" =>
               \A a \in ArgSet("is_bearish_harami", 1),
                  b \in ArgSet("is_bearish_harami", 2) :
                   is_bearish_harami(candles, a, b) /= "True"

\* a Bullish Harami matched on a window of well-ordered bars whose second bar
\* is thick enough for an engulfing under that pattern's default, and the
\* window is no Bullish Engulfing
C23_Witness ==
    /\ called = "is_bullish_harami"
    /\ result = "True"
    /\ AllOrdered(candles)
    /\ is_thick_bullish(At(candles, 1), DefaultArgs["is_bullish_engulfing"][1])
    /\ is_bullish_engulfing(candles, DefaultArgs["is_bullish_engulfing"][1]) = "False"

-----------------------------------------------------------------------------
(* The identities between the length properties of a bar *)

LengthProperties ==
    {"top_wick", "bottom_wick", "body_length", "length", "body_low", "body_high"}

\* the property called name of the bar c, as the caller holds it: the value
\* just read when name is the property read, else the value a read would give
Held(name, c) ==
    IF called = name THEN result
    ELSE CASE name = "top_wick" -> top_wick_rounded(c)
           [] name = "bottom_wick" -> bottom_wick_rounded(c)
           [] name = "body_length" -> body_length_rounded(c)
           [] name = "length" -> length_rounded(c)
           [] name = "body_low" -> body_low(c)
           [] name = "body_high" -> body_high(c)

\* top_wick + body_length + bottom_wick, left to right as Python adds
WickBodySum(c) ==
    FAdd(FAdd(Held("top_wick", c), Held("body_length", c)), Held("bottom_wick", c))

\* none of the four subtractions and two additions behind the sum and the
\* length of c is rounded: each float result is the exact one
ExactlyComputed(c) ==
    /\ top_wick_rounded(c) = top_wick(c)
    /\ bottom_wick_rounded(c) = bottom_wick(c)
    /\ body_length_rounded(c) = body_length(c)
    /\ length_rounded(c) = length(c)
    /\ FAdd(top_wick(c), body_length(c)) = Add(top_wick(c), body_length(c))
    /\ WickBodySum(c) = Add(Add(top_wick(c), body_length(c)), bottom_wick(c))

\* C21 as first stated: for every bar, top_wick + body_length + bottom_wick
\* == length and body_high - body_low == body_length, with body_low ==
\* min(open, close) and body_high == max(open, close).  Read here on the
\* well-ordered bars, where the first equality already fails.
C21_FeatureIdentities ==
    (called \in LengthProperties /\ Ordered(Last(candles)))
        => LET c == Last(candles)
           IN  /\ WickBodySum(c) = Held("length", c)
               /\ FSub(Held("body_high", c), Held("body_low", c))
                      = Held("body_length", c)
               /\ Held("body_low", c) = Min(c.open, c.close)
               /\ Held("body_high", c) = Max(c.open, c.close)

\* C21 as amended: for every bar, well-ordered or not, body_low is
\* min(open, close), body_high is max(open, close) and body_high - body_low
\* == body_length; top_wick + body_length + bottom_wick == length whenever
\* none of the subtractions and additions involved is rounded.
C21_FeatureIdentitiesAmended ==
    called \in LengthProperties
        => LET c == Last(candles)
           IN  /\ ExactlyComputed(c) => WickBodySum(c) = Held("length", c)
               /\ FSub(Held("body_high", c), Held("body_low", c))
                      = Held("body_length", c)
               /\ Held("body_low", c) = Min(c.open, c.close)
               /\ Held("body_high", c) = Max(c.open, c.close)

\* length was read on a bullish bar with a body and both wicks, none of its
\* properties rounded, and equals the sum of the three parts
C21_Witness ==
    /\ called = "length"
    /\ LET c == Last(candles)
       IN  /\ ExactlyComputed(c)
           /\ is_bullish(c)
           /\ Gt(top_wick_rounded(c), Zero)
           /\ Gt(bottom_wick_rounded(c), Zero)
           /\ result = WickBodySum(c)

=============================================================================
